---- MODULE Spec2Model ----
(***************************************************************************)
(* A model of the datacube query layer (datacube/api/query.py): the tile   *)
(* and dataset tables the queries read, the SQL of every listing, the      *)
(* generator that pages a cursor, the materialising wrappers, the CSV      *)
(* exports and the error handling around each of them.                     *)
(***************************************************************************)
EXTENDS Integers, Sequences, FiniteSets, TLC

(***************************************************************************)
(* Enumerations of query.py                                                *)
(***************************************************************************)
SINGLE == 1
MOSAIC == 4
TILE_CLASSES == {SINGLE, MOSAIC}

ONE_DEGREE == 1
TILE_TYPE == ONE_DEGREE

NBAR == 2
PQA == 3
FC == 4
DSM == 100
DEM == 110
DEM_S == 120
DEM_H == 130

ASC == "asc"
DESC == "desc"

\* size=100 of result_generator
BatchSize == 100

(***************************************************************************)
(* SQL values.  A nullable value is <<>> (NULL) or <<v>>.                  *)
(***************************************************************************)
NULL == <<>>
Some(v) == <<v>>

\* SQL "a = b": never true when a side is NULL
SqlEq(a, b) == a # NULL /\ b # NULL /\ a = b

\* a column of an outer-joined row, NULL when the row is absent
Col(row, c) == IF row = NULL THEN NULL ELSE row[1][c]

Range(s) == {s[i] : i \in DOMAIN s}

\* lexicographic order on integer tuples of one length
RECURSIVE LexLess(_, _)
LexLess(a, b) ==
    IF a = <<>> THEN FALSE
    ELSE IF Head(a) < Head(b) THEN TRUE
    ELSE IF Head(a) > Head(b) THEN FALSE
    ELSE LexLess(Tail(a), Tail(b))

LexLeq(a, b) == a = b \/ LexLess(a, b)

(***************************************************************************)
(* Bounds of the database content                                          *)
(***************************************************************************)
MaxTiles == 6

\* next() calls made on a generator after it is exhausted
MaxAgain == 1

\* rows of a cursor's result set and sizes of a batch, for result_generator
\* called on its own
MaxRows == 4
MaxSize == 3

(***************************************************************************)
(* The schema: acquisition joined to satellite is fixed content; the tile  *)
(* table (each tile joined to its dataset, which carries acquisition_id    *)
(* and level_id) is the variable part of the database.                     *)
(***************************************************************************)
VARIABLES
    tile,       \* rows of "tile join dataset on dataset.dataset_id=tile.dataset_id"
    frame,      \* the running call: function, bound arguments, locals, position
    session,    \* the database connection and cursor the call opened
    caller,     \* what the caller has received: records, return value, error, file
    context,    \* the DatacubeQueryContext object, without fields before __init__
    stopwatch,  \* the Stopwatch object of cube_util
    clock,      \* what time.time() and time.clock() return now
    ran,        \* history: the time the stopwatch has run, now and when last stopped or read
    umask,      \* the file mode creation mask of the process
    files       \* the file system: what exists at each path

vars == <<tile, frame, session, caller, context, stopwatch, clock, ran, umask, files>>

\* the state outside the query functions
outside_query == <<context, stopwatch, clock, ran, umask, files>>

\* datetimes are <<year, month, day, hour>>, dates <<year, month, day>>
DateOf(ts) == SubSeq(ts, 1, 3)
YearOf(ts) == ts[1]
MonthOf(ts) == ts[2]

\* acquisition join satellite on satellite.satellite_id=acquisition.satellite_id
acquisition ==
    { [acquisition_id |-> Some(1), satellite_tag |-> "LS5",
       start_datetime |-> <<2000, 2, 1, 9>>, end_datetime |-> <<2000, 2, 1, 10>>],
      [acquisition_id |-> Some(2), satellite_tag |-> "LS7",
       start_datetime |-> <<2001, 3, 1, 9>>, end_datetime |-> <<2001, 3, 1, 10>>] }

\* collation of satellite tags, for "order by ... satellite asc"
SatelliteRank(tag) == IF tag = "LS5" THEN 5 ELSE IF tag = "LS7" THEN 7 ELSE 8

TileRow(acq, level, x, y, type, class) ==
    [acquisition_id |-> acq, level_id |-> level, x_index |-> x, y_index |-> y,
     tile_type_id |-> type, tile_class_id |-> class,
     tile_pathname |-> <<level, x, y, type, class, IF acq = NULL THEN 0 ELSE acq[1]>>]

\* candidate rows of the temporal levels: all three levels in both supported
\* classes for the first acquisition, a superseded (class 3) surface
\* reflectance tile, and a second acquisition that has surface reflectance only
TemporalRows ==
    { TileRow(Some(1), l, 150, -34, ONE_DEGREE, c) : l \in {NBAR, PQA, FC}, c \in {SINGLE, MOSAIC} }
    \cup { TileRow(Some(1), NBAR, 150, -34, ONE_DEGREE, 3),
           TileRow(Some(2), NBAR, 150, -34, ONE_DEGREE, SINGLE) }

\* candidate rows over three cells of the grid: two cells with all three
\* levels of the first acquisition, a third with surface reflectance only
GridRows ==
    { TileRow(Some(1), l, x, -34, ONE_DEGREE, SINGLE) : l \in {NBAR, PQA, FC}, x \in {150, 151} }
    \cup { TileRow(Some(1), NBAR, 150, -33, ONE_DEGREE, SINGLE) }

\* candidate rows in and out of the supported type and classes: all three
\* levels in class SINGLE and in the superseded class 3, and a surface
\* reflectance tile of another tile type; the four terrain levels in class
\* SINGLE and in class 3
UnsupportedRows ==
    { TileRow(Some(1), l, 150, -34, ONE_DEGREE, c) : l \in {NBAR, PQA, FC}, c \in {SINGLE, 3} }
    \cup { TileRow(Some(1), NBAR, 150, -34, 2, SINGLE) }

UnsupportedTerrainRows ==
    { TileRow(NULL, l, 150, -34, ONE_DEGREE, c) : l \in {DSM, DEM, DEM_S, DEM_H}, c \in {SINGLE, 3} }

\* candidate rows of the terrain levels, which have no acquisition
TerrainRows ==
    { TileRow(NULL, l, 150, -34, ONE_DEGREE, SINGLE) : l \in {DSM, DEM, DEM_S, DEM_H} }
    \cup { TileRow(NULL, DSM, 150, -34, ONE_DEGREE, MOSAIC),
           TileRow(NULL, DEM, 151, -34, ONE_DEGREE, SINGLE) }

\* (select dataset.acquisition_id, tile.* from tile join dataset
\*  where dataset.level_id = level)
Subselect(level) == { t \in tile : t.level_id = level }

\* variant of SameTile: joined on the grid indices and tile type only
SameTile_without_class(a, b) ==
    /\ a.x_index = b.x_index /\ a.y_index = b.y_index
    /\ a.tile_type_id = b.tile_type_id

\* the join keys shared by every joined level
SameTile(a, b) ==
    /\ a.x_index = b.x_index /\ a.y_index = b.y_index
    /\ a.tile_type_id = b.tile_type_id /\ a.tile_class_id = b.tile_class_id

\* acquisition join nbar join pq join fc
PresentJoin(level_nbar, level_pqa, level_fc) ==
    { j \in [acquisition : acquisition, nbar : Subselect(level_nbar),
             pq : Subselect(level_pqa), fc : Subselect(level_fc)] :
        /\ SqlEq(j.nbar.acquisition_id, j.acquisition.acquisition_id)
        /\ SqlEq(j.pq.acquisition_id, j.acquisition.acquisition_id)
        /\ SameTile(j.pq, j.nbar)
        /\ SqlEq(j.fc.acquisition_id, j.acquisition.acquisition_id)
        /\ SameTile(j.fc, j.nbar) }

\* variant of FcMatches: the fc side joined on acquisition and grid indices only
FcMatches_on_cell_only(a, n) ==
    { f \in Subselect(FC) :
        /\ SqlEq(f.acquisition_id, a.acquisition_id)
        /\ f.x_index = n.x_index /\ f.y_index = n.y_index }

\* acquisition join nbar left outer join fc: the fc side is <<row>> or NULL
FcMatches(a, n) ==
    { f \in Subselect(FC) : SqlEq(f.acquisition_id, a.acquisition_id) /\ SameTile(f, n) }

MissingJoin ==
    UNION { IF FcMatches(a, n) = {}
            THEN { [acquisition |-> a, nbar |-> n, fc |-> NULL] }
            ELSE { [acquisition |-> a, nbar |-> n, fc |-> Some(f)] : f \in FcMatches(a, n) }
          : <<a, n>> \in { an \in acquisition \X Subselect(NBAR) :
                             SqlEq(an[2].acquisition_id, an[1].acquisition_id) } }

\* variant of DtmJoin: the levels joined on dataset.acquisition_id as well
DtmJoin_on_acquisition ==
    { j \in [dsm : Subselect(DSM), dem : Subselect(DEM),
             dem_s : Subselect(DEM_S), dem_h : Subselect(DEM_H)] :
        /\ SqlEq(j.dem.acquisition_id, j.dsm.acquisition_id) /\ SameTile(j.dem, j.dsm)
        /\ SqlEq(j.dem_s.acquisition_id, j.dsm.acquisition_id) /\ SameTile(j.dem_s, j.dsm)
        /\ SqlEq(j.dem_h.acquisition_id, j.dsm.acquisition_id) /\ SameTile(j.dem_h, j.dsm) }

\* dsm join dem join dem_s join dem_h
DtmJoin ==
    { j \in [dsm : Subselect(DSM), dem : Subselect(DEM),
             dem_s : Subselect(DEM_S), dem_h : Subselect(DEM_H)] :
        /\ SameTile(j.dem, j.dsm)
        /\ SameTile(j.dem_s, j.dsm)
        /\ SameTile(j.dem_h, j.dsm) }

(***************************************************************************)
(* WHERE, ORDER BY and select lists.  p is the params mapping bound to the *)
(* statement's named placeholders.                                         *)
(***************************************************************************)
\* variant of WhereMandatory: nbar.tile_type_id = ANY(%(tile_type)s) alone
WhereMandatory_type_only(t, p) == t.tile_type_id \in p.tile_type

\* nbar.tile_type_id = ANY(%(tile_type)s) and nbar.tile_class_id = ANY(%(tile_class)s)
WhereMandatory(t, p) == t.tile_type_id \in p.tile_type /\ t.tile_class_id \in p.tile_class

\* satellite.satellite_tag = ANY(%(satellite)s)
WhereSatellite(a, p) == a.satellite_tag \in p.satellite

\* nbar.x_index = ANY(%(x)s) and nbar.y_index = ANY(%(y)s)
WhereXY(t, p) == t.x_index \in p.x /\ t.y_index \in p.y

\* a date compared with a timestamp is the timestamp of its midnight
AsTimestamp(v) == IF Len(v) = 3 THEN v \o <<0>> ELSE v

\* SQL "a <= b" on dates and timestamps
SqlLeq(a, b) ==
    IF Len(a) = Len(b) THEN LexLeq(a, b) ELSE LexLeq(AsTimestamp(a), AsTimestamp(b))

\* variant of WhereDates: the upper bound exclusive
WhereDates_before_acq_max(a, p) ==
    /\ SqlLeq(p.acq_min, DateOf(a.end_datetime))
    /\ SqlLeq(DateOf(a.end_datetime), p.acq_max)
    /\ DateOf(a.end_datetime) # p.acq_max

\* end_datetime::date between %(acq_min)s and %(acq_max)s
WhereDates(a, p) ==
    /\ SqlLeq(p.acq_min, DateOf(a.end_datetime))
    /\ SqlLeq(DateOf(a.end_datetime), p.acq_max)

\* extract(year from end_datetime) = ANY(%(year)s)
WhereYears(a, p) == YearOf(a.end_datetime) \in p.year

Direction(sort) == IF sort = DESC THEN -1 ELSE 1

Scale(d, tuple) == [i \in DOMAIN tuple |-> d * tuple[i]]

\* every sequence that lists the rows of S once, in non-decreasing key order:
\* rows that tie on the key may come in any order
RECURSIVE OrderedSeqs(_, _)
OrderedSeqs(S, key) ==
    IF S = {} THEN { <<>> }
    ELSE UNION { { <<m>> \o rest : rest \in OrderedSeqs(S \ {m}, key) }
               : m \in { m \in S : \A o \in S : LexLeq(key[m], key[o]) } }

\* every order of the rows of S (a statement without ORDER BY)
AnyOrder(S) == OrderedSeqs(S, [r \in S |-> <<0>>])

MapSeq(s, F(_)) == [i \in DOMAIN s |-> F(s[i])]

\* variant of SelectCells: order by nbar.x_index {sort}, nbar.y_index
SelectCells_y_ascending(J, sort) ==
    LET rows == { [x_index |-> j.nbar.x_index, y_index |-> j.nbar.y_index] : j \in J }
    IN  OrderedSeqs(rows, [r \in rows |-> <<Direction(sort) * r.x_index, r.y_index>>])

\* select distinct nbar.x_index, nbar.y_index ... order by nbar.x_index {sort}, nbar.y_index {sort}
SelectCells(J, sort) ==
    LET rows == { [x_index |-> j.nbar.x_index, y_index |-> j.nbar.y_index] : j \in J }
    IN  OrderedSeqs(rows, [r \in rows |-> Scale(Direction(sort), <<r.x_index, r.y_index>>)])

\* the select list of the temporal tile statements
TileColumns(j, datasets) ==
    [acquisition_id |-> j.acquisition.acquisition_id,
     satellite |-> Some(j.acquisition.satellite_tag),
     start_datetime |-> Some(j.acquisition.start_datetime),
     end_datetime |-> Some(j.acquisition.end_datetime),
     end_datetime_year |-> Some(YearOf(j.acquisition.end_datetime)),
     end_datetime_month |-> Some(MonthOf(j.acquisition.end_datetime)),
     x_index |-> j.nbar.x_index, y_index |-> j.nbar.y_index,
     xy |-> <<j.nbar.x_index, j.nbar.y_index>>,
     datasets |-> datasets]

PresentColumns(j) ==
    TileColumns(j, << <<"ARG25", j.nbar.tile_pathname>>,
                      <<"PQ25", j.pq.tile_pathname>>,
                      <<"FC25", j.fc.tile_pathname>> >>)

MissingColumns(j) == TileColumns(j, << <<"ARG25", j.nbar.tile_pathname>> >>)

\* order by end_datetime {sort}, satellite asc
ByEndThenSatellite(J, sort) ==
    [j \in J |-> Scale(Direction(sort), j.acquisition.end_datetime)
                 \o <<SatelliteRank(j.acquisition.satellite_tag)>>]

\* order by nbar.x_index {sort}, nbar.y_index {sort}
ByCell(J, sort) ==
    [j \in J |-> Scale(Direction(sort), <<j.nbar.x_index, j.nbar.y_index>>)]

(***************************************************************************)
(* CSV rendering of "copy (...) to STDOUT csv header delimiter ',' escape  *)
(* '"' null '' quote '"'": a header line, then one line of fields per row, *)
(* a NULL rendered as the empty string.                                    *)
(***************************************************************************)
CsvField(v) == IF v = NULL THEN "" ELSE ToString(v[1])

CellHeader == <<"x_index", "y_index">>

CellLine(r) == <<ToString(r.x_index), ToString(r.y_index)>>

TileHeader ==
    <<"acquisition_id", "satellite", "start_datetime", "end_datetime",
      "end_datetime_year", "end_datetime_month", "x_index", "y_index", "xy", "datasets">>

TileLine(r) ==
    <<CsvField(r.acquisition_id), CsvField(r.satellite), CsvField(r.start_datetime),
      CsvField(r.end_datetime), CsvField(r.end_datetime_year), CsvField(r.end_datetime_month),
      ToString(r.x_index), ToString(r.y_index), ToString(r.xy), ToString(r.datasets)>>

Copy(header, rows, Line(_)) == <<header>> \o MapSeq(rows, Line)

(***************************************************************************)
(* The statements, one per function: the named placeholders of the SQL     *)
(* text, the params mapping the function builds from its arguments a, and  *)
(* the result sets the statement can produce for bound params p.           *)
(***************************************************************************)
MandatoryPlaceholders == {"tile_type", "tile_class"}
FilterPlaceholders == MandatoryPlaceholders \cup {"satellite", "x", "y"}

\* ---- list_cells_as_generator
list_cells_as_generator_placeholders ==
    FilterPlaceholders \cup {"acq_min", "acq_max", "level_nbar", "level_pqa", "level_fc"}

list_cells_as_generator_params(a) ==
    [tile_type |-> {TILE_TYPE}, tile_class |-> TILE_CLASSES,
     satellite |-> a.satellites, x |-> a.x, y |-> a.y,
     acq_min |-> a.acq_min, acq_max |-> a.acq_max,
     level_nbar |-> NBAR, level_pqa |-> PQA, level_fc |-> FC]

list_cells_as_generator_sql(p, sort) ==
    SelectCells({ j \in PresentJoin(p.level_nbar, p.level_pqa, p.level_fc) :
                    /\ WhereMandatory(j.nbar, p)
                    /\ WhereSatellite(j.acquisition, p)
                    /\ WhereXY(j.nbar, p)
                    /\ WhereDates(j.acquisition, p) }, sort)

\* ---- list_cells_to_file
list_cells_to_file_placeholders == FilterPlaceholders \cup {"year"}

list_cells_to_file_params(a) ==
    [tile_type |-> {1}, tile_class |-> TILE_CLASSES,
     satellite |-> a.satellites, x |-> a.x, y |-> a.y, year |-> a.years]

list_cells_to_file_sql(p, sort) ==
    SelectCells({ j \in PresentJoin(2, 3, 4) :
                    /\ WhereMandatory(j.nbar, p)
                    /\ WhereSatellite(j.acquisition, p)
                    /\ WhereXY(j.nbar, p)
                    /\ WhereYears(j.acquisition, p) }, sort)

\* ---- list_cells_missing_as_generator
list_cells_missing_as_generator_placeholders == FilterPlaceholders \cup {"acq_min", "acq_max"}

list_cells_missing_as_generator_params(a) ==
    [tile_type |-> {1}, tile_class |-> TILE_CLASSES,
     satellite |-> a.satellites, x |-> a.x, y |-> a.y,
     acq_min |-> a.acq_min, acq_max |-> a.acq_max]

\* variant of the statement: without "and fc.acquisition_id is null"
list_cells_missing_as_generator_sql_without_null_test(p, sort) ==
    SelectCells({ j \in MissingJoin :
                    /\ WhereMandatory(j.nbar, p)
                    /\ WhereSatellite(j.acquisition, p)
                    /\ WhereXY(j.nbar, p)
                    /\ WhereDates(j.acquisition, p) }, sort)

list_cells_missing_as_generator_sql(p, sort) ==
    SelectCells({ j \in MissingJoin :
                    /\ WhereMandatory(j.nbar, p)
                    /\ WhereSatellite(j.acquisition, p)
                    /\ WhereXY(j.nbar, p)
                    /\ WhereDates(j.acquisition, p)
                    /\ Col(j.fc, "acquisition_id") = NULL }, sort)

\* ---- list_cells_missing_to_file
list_cells_missing_to_file_placeholders == FilterPlaceholders \cup {"acq_min", "acq_max"}

list_cells_missing_to_file_params(a) ==
    [tile_type |-> {1}, tile_class |-> TILE_CLASSES,
     satellite |-> a.satellites, x |-> a.x, y |-> a.y, year |-> a.years]

list_cells_missing_to_file_sql(p, sort) == list_cells_missing_as_generator_sql(p, sort)

\* ---- list_tiles_as_generator
list_tiles_as_generator_placeholders == FilterPlaceholders \cup {"acq_min", "acq_max"}

list_tiles_as_generator_params(a) ==
    [tile_type |-> {1}, tile_class |-> TILE_CLASSES,
     satellite |-> a.satellites, x |-> a.x, y |-> a.y,
     acq_min |-> a.acq_min, acq_max |-> a.acq_max]

list_tiles_as_generator_sql(p, sort) ==
    LET J == { j \in PresentJoin(2, 3, 4) :
                 /\ WhereMandatory(j.nbar, p)
                 /\ WhereSatellite(j.acquisition, p)
                 /\ WhereXY(j.nbar, p)
                 /\ WhereDates(j.acquisition, p) }
    IN  { MapSeq(s, PresentColumns) : s \in OrderedSeqs(J, ByEndThenSatellite(J, sort)) }

\* ---- list_tiles_to_file
list_tiles_to_file_placeholders == FilterPlaceholders \cup {"year"}

list_tiles_to_file_params(a) ==
    [tile_type |-> {1}, tile_class |-> TILE_CLASSES,
     satellite |-> a.satellites, x |-> a.x, y |-> a.y, year |-> a.years]

list_tiles_to_file_sql(p, sort) ==
    LET J == { j \in PresentJoin(2, 3, 4) :
                 /\ WhereMandatory(j.nbar, p)
                 /\ WhereSatellite(j.acquisition, p)
                 /\ WhereXY(j.nbar, p)
                 /\ WhereYears(j.acquisition, p) }
    IN  { MapSeq(s, PresentColumns) : s \in OrderedSeqs(J, ByEndThenSatellite(J, sort)) }

\* ---- list_tiles_missing_as_generator
list_tiles_missing_as_generator_placeholders == FilterPlaceholders \cup {"acq_min", "acq_max"}

list_tiles_missing_as_generator_params(a) ==
    [tile_type |-> {1}, tile_class |-> TILE_CLASSES,
     satellite |-> a.satellites, x |-> a.x, y |-> a.y,
     acq_min |-> a.acq_min, acq_max |-> a.acq_max]

\* variant of the statement: without "and fc.acquisition_id is null"
list_tiles_missing_as_generator_sql_without_null_test(p, sort) ==
    LET J == { j \in MissingJoin :
                 /\ WhereMandatory(j.nbar, p)
                 /\ WhereSatellite(j.acquisition, p)
                 /\ WhereXY(j.nbar, p)
                 /\ WhereDates(j.acquisition, p) }
    IN  { MapSeq(s, MissingColumns) : s \in OrderedSeqs(J, ByCell(J, sort)) }

list_tiles_missing_as_generator_sql(p, sort) ==
    LET J == { j \in MissingJoin :
                 /\ WhereMandatory(j.nbar, p)
                 /\ WhereSatellite(j.acquisition, p)
                 /\ WhereXY(j.nbar, p)
                 /\ WhereDates(j.acquisition, p)
                 /\ Col(j.fc, "acquisition_id") = NULL }
    IN  { MapSeq(s, MissingColumns) : s \in OrderedSeqs(J, ByCell(J, sort)) }

\* ---- list_tiles_missing_to_file
list_tiles_missing_to_file_placeholders == FilterPlaceholders \cup {"acq_min", "acq_max"}

list_tiles_missing_to_file_params(a) ==
    [tile_type |-> {1}, tile_class |-> TILE_CLASSES,
     satellite |-> a.satellites, x |-> a.x, y |-> a.y, year |-> a.years]

list_tiles_missing_to_file_sql(p, sort) == list_tiles_missing_as_generator_sql(p, sort)

\* ---- list_tiles_dtm_as_generator
list_tiles_dtm_as_generator_placeholders == MandatoryPlaceholders \cup {"x", "y"}

list_tiles_dtm_as_generator_params(a) ==
    [tile_type |-> {1}, tile_class |-> TILE_CLASSES, x |-> a.x, y |-> a.y]

DtmColumns(j) ==
    [acquisition_id |-> NULL, satellite |-> NULL,
     start_datetime |-> NULL, end_datetime |-> NULL,
     end_datetime_year |-> NULL, end_datetime_month |-> NULL,
     x_index |-> j.dsm.x_index, y_index |-> j.dsm.y_index,
     xy |-> <<j.dsm.x_index, j.dsm.y_index>>,
     datasets |-> << <<"DSM", j.dsm.tile_pathname>>,
                     <<"DEM", j.dem.tile_pathname>>,
                     <<"DEM_HYDROLOGICALLY_ENFORCED", j.dem_h.tile_pathname>>,
                     <<"DEM_SMOOTHED", j.dem_s.tile_pathname>> >>]

list_tiles_dtm_as_generator_sql(p, sort) ==
    LET J == { j \in DtmJoin : WhereMandatory(j.dsm, p) /\ WhereXY(j.dsm, p) }
    IN  { MapSeq(s, DtmColumns) : s \in AnyOrder(J) }

\* ---- list_tiles_wkt
\* the footprint table holds one bounding box per cell of the grid
tile_footprint ==
    { [x_index |-> x, y_index |-> -34, tile_type_id |-> ONE_DEGREE, bbox |-> <<x, -34>>]
      : x \in {150, 151} }

\* st_intersects(tile_footprint.bbox, st_geomfromtext(%(polygon)s, 4326)):
\* a polygon is given by the set of cell boxes it intersects
st_intersects(bbox, polygon) == bbox \in polygon

list_tiles_wkt_placeholders == MandatoryPlaceholders \cup {"satellite", "polygon", "year"}

list_tiles_wkt_params(a) ==
    [tile_type |-> {1}, tile_class |-> TILE_CLASSES,
     satellite |-> a.satellites, polygon |-> a.wkt, year |-> a.years]

list_tiles_wkt_sql(p, sort) ==
    LET J == { j \in PresentJoin(2, 3, 4) :
                 /\ \E fp \in tile_footprint :
                       /\ fp.x_index = j.nbar.x_index /\ fp.y_index = j.nbar.y_index
                       /\ fp.tile_type_id = j.nbar.tile_type_id
                       /\ st_intersects(fp.bbox, p.polygon)
                 /\ WhereMandatory(j.nbar, p)
                 /\ WhereSatellite(j.acquisition, p)
                 /\ WhereYears(j.acquisition, p) }
    IN  { MapSeq(s, PresentColumns) : s \in OrderedSeqs(J, ByEndThenSatellite(J, ASC)) }

(***************************************************************************)
(* Records handed to the caller                                            *)
(***************************************************************************)
Cell_from_db_record(record) == [x |-> record.x_index, y |-> record.y_index]

Tile_from_db_record(record) ==
    [acquisition_id |-> record.acquisition_id,
     satellite |-> record.satellite,
     start_datetime |-> record.start_datetime,
     end_datetime |-> record.end_datetime,
     end_datetime_year |-> record.end_datetime_year,
     end_datetime_month |-> record.end_datetime_month,
     x |-> record.x_index, y |-> record.y_index,
     datasets |-> [label \in { record.datasets[i][1] : i \in DOMAIN record.datasets } |->
                     (CHOOSE pair \in Range(record.datasets) : pair[1] = label)[2]]]

(***************************************************************************)
(* Functions, signatures and calls                                         *)
(***************************************************************************)
Generators ==
    {"list_cells_as_generator", "list_cells_missing_as_generator",
     "list_tiles_as_generator", "list_tiles_missing_as_generator",
     "list_tiles_dtm_as_generator"}

\* the deprecated names, which return the generator
Aliases ==
    {"list_cells", "list_cells_missing", "list_tiles", "list_tiles_missing", "list_tiles_dtm"}

Lists ==
    {"list_cells_as_list", "list_cells_missing_as_list",
     "list_tiles_as_list", "list_tiles_missing_as_list", "list_tiles_dtm_as_list"}

Exports ==
    {"list_cells_to_file", "list_cells_missing_to_file",
     "list_tiles_to_file", "list_tiles_missing_to_file"}

CellFunctions ==
    {"list_cells_as_generator", "list_cells_missing_as_generator",
     "list_cells_to_file", "list_cells_missing_to_file"}

\* def f(x, y, satellites, acq_min, acq_max, datasets, database, user, password,
\*       host=None, port=None, sort=SortType.ASC)
TemporalSignature ==
    <<"x", "y", "satellites", "acq_min", "acq_max", "datasets",
      "database", "user", "password", "host", "port", "sort">>

\* def f(x, y, satellites, years, datasets, filename, database, user, password,
\*       host=None, port=None, sort=SortType.ASC)
ExportSignature ==
    <<"x", "y", "satellites", "years", "datasets", "filename",
      "database", "user", "password", "host", "port", "sort">>

\* def f(x, y, datasets, database, user, password, host=None, port=None, sort=SortType.ASC)
DtmSignature ==
    <<"x", "y", "datasets", "database", "user", "password", "host", "port", "sort">>

\* def list_tiles_wkt(wkt, satellites, years, datasets, database, user, password,
\*                    host=None, port=None)
WktSignature ==
    <<"wkt", "satellites", "years", "datasets", "database", "user", "password", "host", "port">>

Signature(fn) ==
    IF fn \in {"list_tiles_dtm", "list_tiles_dtm_as_list", "list_tiles_dtm_as_generator"}
    THEN DtmSignature
    ELSE IF fn \in Exports THEN ExportSignature
    ELSE IF fn = "list_tiles_wkt" THEN WktSignature
    ELSE TemporalSignature

\* host=None, port=None, sort=SortType.ASC
Default(name) == IF name = "sort" THEN ASC ELSE "None"

\* positional binding of the actual arguments to the parameters of fn
Bind(fn, actuals) ==
    LET sig == Signature(fn)
    IN  [name \in Range(sig) |->
            LET i == CHOOSE k \in DOMAIN sig : sig[k] = name
            IN  IF i <= Len(actuals) THEN actuals[i] ELSE Default(name)]

\* a function passing all its own parameters on, in its own order
OwnArguments(fn, a) == [i \in DOMAIN Signature(fn) |-> a[Signature(fn)[i]]]

\* return list_cells_as_generator(x, y, satellites, acq_min, acq_max, datasets, ...)
list_cells(a) == <<"list_cells_as_generator", OwnArguments("list_cells", a)>>
list_cells_as_list(a) == <<"list_cells_as_generator", OwnArguments("list_cells_as_list", a)>>
list_cells_missing(a) ==
    <<"list_cells_missing_as_generator", OwnArguments("list_cells_missing", a)>>
list_cells_missing_as_list(a) ==
    <<"list_cells_missing_as_generator", OwnArguments("list_cells_missing_as_list", a)>>
list_tiles(a) == <<"list_tiles_as_generator", OwnArguments("list_tiles", a)>>
list_tiles_as_list(a) == <<"list_tiles_as_generator", OwnArguments("list_tiles_as_list", a)>>
list_tiles_missing(a) ==
    <<"list_tiles_missing_as_generator", OwnArguments("list_tiles_missing", a)>>
\* variant of list_tiles_missing_as_list: asking for the present tile generator
list_tiles_missing_as_list_of_present(a) ==
    <<"list_tiles_as_generator", OwnArguments("list_tiles_missing_as_list", a)>>
list_tiles_missing_as_list(a) ==
    <<"list_tiles_missing_as_generator", OwnArguments("list_tiles_missing_as_list", a)>>
list_tiles_dtm(a) == <<"list_tiles_dtm_as_generator", OwnArguments("list_tiles_dtm", a)>>
\* return list(list_tiles(x, y, datasets, database, user, password, host, port, sort))
list_tiles_dtm_as_list(a) == <<"list_tiles", OwnArguments("list_tiles_dtm_as_list", a)>>

\* TimeInterval: datetime(1900, 1, 1) and datetime(3999, 1, 1)
MIN_INSTANT == <<1900, 1, 1, 0>>
MAX_INSTANT == <<3999, 1, 1, 0>>

\* variant of TimeInterval: assert(end_datetime >= start_datetime)
TimeInterval_allowing_empty(start_datetime, end_datetime) ==
    IF LexLeq(start_datetime, end_datetime)
    THEN [start |-> start_datetime, end |-> end_datetime]
    ELSE [raised |-> "AssertionError"]

\* TimeInterval.__init__: assert(end_datetime > start_datetime), then the two
\* assignments; a failed assertion leaves no object, only the error
TimeInterval(start_datetime, end_datetime) ==
    IF LexLess(start_datetime, end_datetime)
    THEN [start |-> start_datetime, end |-> end_datetime]
    ELSE [raised |-> "AssertionError"]

\* def __init__(self, start_datetime=MIN_INSTANT, end_datetime=MAX_INSTANT):
\* an argument is <<value>>, or NULL when the caller leaves it out
TimeInterval_defaults(start_arg, end_arg) ==
    <<IF start_arg = NULL THEN MIN_INSTANT ELSE start_arg[1],
      IF end_arg = NULL THEN MAX_INSTANT ELSE end_arg[1]>>

\* no DatacubeQueryContext constructed yet
NoContext == [object |-> "None"]

\* DatacubeQueryContext.__init__: self.db_credentials = db_credentials
DatacubeQueryContext(db_credentials) == [db_credentials |-> db_credentials]

\* variant of tile_list: the interval passed end first
tile_list_end_first(self, x_list, y_list, satellite_list, time_interval, dataset_list, sort) ==
    <<"list_tiles_as_list",
      <<x_list, y_list, satellite_list, time_interval.end, time_interval.start, dataset_list,
        self.db_credentials.database, self.db_credentials.user, self.db_credentials.password,
        self.db_credentials.host, self.db_credentials.port, sort>> >>

\* DatacubeQueryContext.tile_list: return list_tiles_as_list(x_list, y_list,
\* satellite_list, time_interval.start, time_interval.end, dataset_list,
\* database=self.db_credentials.database, ..., sort=sort)
tile_list(self, x_list, y_list, satellite_list, time_interval, dataset_list, sort) ==
    <<"list_tiles_as_list",
      <<x_list, y_list, satellite_list, time_interval.start, time_interval.end, dataset_list,
        self.db_credentials.database, self.db_credentials.user, self.db_credentials.password,
        self.db_credentials.host, self.db_credentials.port, sort>> >>

\* the call a wrapper function makes: <<callee, positional arguments>>
Delegate(fn, a) ==
    CASE fn = "list_cells" -> list_cells(a)
      [] fn = "list_cells_as_list" -> list_cells_as_list(a)
      [] fn = "list_cells_missing" -> list_cells_missing(a)
      [] fn = "list_cells_missing_as_list" -> list_cells_missing_as_list(a)
      [] fn = "list_tiles" -> list_tiles(a)
      [] fn = "list_tiles_as_list" -> list_tiles_as_list(a)
      [] fn = "list_tiles_missing" -> list_tiles_missing(a)
      [] fn = "list_tiles_missing_as_list" -> list_tiles_missing_as_list(a)
      [] fn = "list_tiles_dtm" -> list_tiles_dtm(a)
      [] fn = "list_tiles_dtm_as_list" -> list_tiles_dtm_as_list(a)

\* the generator function a call of fn ends in, with its bound arguments
RECURSIVE Resolve(_, _)
Resolve(fn, actuals) ==
    IF fn \in Generators THEN [function |-> fn, args |-> Bind(fn, actuals)]
    ELSE LET d == Delegate(fn, Bind(fn, actuals)) IN Resolve(d[1], d[2])

Placeholders(fn) ==
    CASE fn = "list_cells_as_generator" -> list_cells_as_generator_placeholders
      [] fn = "list_cells_to_file" -> list_cells_to_file_placeholders
      [] fn = "list_cells_missing_as_generator" -> list_cells_missing_as_generator_placeholders
      [] fn = "list_cells_missing_to_file" -> list_cells_missing_to_file_placeholders
      [] fn = "list_tiles_as_generator" -> list_tiles_as_generator_placeholders
      [] fn = "list_tiles_to_file" -> list_tiles_to_file_placeholders
      [] fn = "list_tiles_missing_as_generator" -> list_tiles_missing_as_generator_placeholders
      [] fn = "list_tiles_missing_to_file" -> list_tiles_missing_to_file_placeholders
      [] fn = "list_tiles_dtm_as_generator" -> list_tiles_dtm_as_generator_placeholders
      [] fn = "list_tiles_wkt" -> list_tiles_wkt_placeholders

Params(fn, a) ==
    CASE fn = "list_cells_as_generator" -> list_cells_as_generator_params(a)
      [] fn = "list_cells_to_file" -> list_cells_to_file_params(a)
      [] fn = "list_cells_missing_as_generator" -> list_cells_missing_as_generator_params(a)
      [] fn = "list_cells_missing_to_file" -> list_cells_missing_to_file_params(a)
      [] fn = "list_tiles_as_generator" -> list_tiles_as_generator_params(a)
      [] fn = "list_tiles_to_file" -> list_tiles_to_file_params(a)
      [] fn = "list_tiles_missing_as_generator" -> list_tiles_missing_as_generator_params(a)
      [] fn = "list_tiles_missing_to_file" -> list_tiles_missing_to_file_params(a)
      [] fn = "list_tiles_dtm_as_generator" -> list_tiles_dtm_as_generator_params(a)
      [] fn = "list_tiles_wkt" -> list_tiles_wkt_params(a)

\* the result sets cursor.execute(sql, params) can leave in the cursor
Sql(fn, p, sort) ==
    CASE fn = "list_cells_as_generator" -> list_cells_as_generator_sql(p, sort)
      [] fn = "list_cells_to_file" -> list_cells_to_file_sql(p, sort)
      [] fn = "list_cells_missing_as_generator" -> list_cells_missing_as_generator_sql(p, sort)
      [] fn = "list_cells_missing_to_file" -> list_cells_missing_to_file_sql(p, sort)
      [] fn = "list_tiles_as_generator" -> list_tiles_as_generator_sql(p, sort)
      [] fn = "list_tiles_to_file" -> list_tiles_to_file_sql(p, sort)
      [] fn = "list_tiles_missing_as_generator" -> list_tiles_missing_as_generator_sql(p, sort)
      [] fn = "list_tiles_missing_to_file" -> list_tiles_missing_to_file_sql(p, sort)
      [] fn = "list_tiles_dtm_as_generator" -> list_tiles_dtm_as_generator_sql(p, sort)
      [] fn = "list_tiles_wkt" -> list_tiles_wkt_sql(p, sort)

\* .format(sort=sort.value); list_tiles_wkt and the terrain statement take no sort
SortOf(fn, a) == IF "sort" \in DOMAIN a THEN a.sort ELSE ASC

FromDbRecord(fn, record) ==
    IF fn \in CellFunctions THEN Cell_from_db_record(record) ELSE Tile_from_db_record(record)

(***************************************************************************)
(* The database server and the body shared by the query functions          *)
(***************************************************************************)
\* the credentials the server accepts
ConnectOk(a) == a.database = "datacube" /\ a.user = "cube_user" /\ a.password = "secret"

\* what can go wrong in one step: nothing, psycopg2.connect, cursor.execute
\* or copy_expert, cursor.fetchmany or the cursor iteration
Fates == {"ok", "connect", "execute", "fetch"}

NoSession ==
    [connection |-> "absent", cursor |-> "absent", result_set |-> <<>>,
     position |-> 0, rollbacks |-> 0, referenced |-> FALSE]

NoFrame ==
    [function |-> "none", args |-> <<>>, state |-> "none",
     conn |-> "None", cursor |-> "None", results |-> <<>>, exception |-> "none"]

\* conn, cursor = None, None at the top of a function called with arguments a
NewFrame(fn, a) ==
    [function |-> fn, args |-> a, state |-> "created",
     conn |-> "None", cursor |-> "None", results |-> <<>>, exception |-> "none"]

\* the function ends: its locals go, nothing refers to the connection any more
Ended(g, event) ==
    [frame |-> [g.frame EXCEPT !.state = "finished", !.results = <<>>],
     session |-> [g.session EXCEPT !.referenced = FALSE],
     log |-> g.log, event |-> event]

\* except Exception as e: _log.error("Caught exception %s", e); conn.rollback()
Except(g, e) ==
    LET logged == [g EXCEPT !.log = g.log + 1, !.frame.exception = e]
    IN  IF g.frame.conn = "None"
        THEN Ended(logged, <<"raise", "AttributeError">>)
        ELSE Ended([logged EXCEPT !.session.rollbacks = g.session.rollbacks + 1], <<"stop">>)

\* conn = psycopg2.connect(connection_string); cursor = conn.cursor(...)
Connected(g) ==
    [g EXCEPT !.frame.conn = "connection", !.frame.cursor = "cursor",
              !.session = [NoSession EXCEPT !.connection = "open", !.cursor = "open",
                                            !.referenced = TRUE]]

Min(a, b) == IF a < b THEN a ELSE b

\* variant of Fetchmany: every remaining row, whatever the size
Fetchmany_all(s, size) ==
    SubSeq(s.result_set, s.position + 1, Len(s.result_set))

\* results = cursor.fetchmany(size)
Fetchmany(s, size) ==
    SubSeq(s.result_set, s.position + 1, Min(s.position + size, Len(s.result_set)))

\* result_generator: from where it stands up to its next yield, its end or
\* the error cursor.fetchmany raises
result_generator(g, size, fate) ==
    IF g.frame.results # <<>>
    THEN [g EXCEPT !.frame.results = Tail(g.frame.results)]
         @@ [event |-> <<"yield", Head(g.frame.results)>>]
    ELSE IF fate = "fetch" THEN g @@ [event |-> <<"raise", "DatabaseError">>]
    ELSE LET results == Fetchmany(g.session, size)
         IN  IF results = <<>>
             THEN g @@ [event |-> <<"stop">>]
             ELSE [g EXCEPT !.frame.state = "suspended",
                            !.frame.results = Tail(results),
                            !.session.position = g.session.position + Len(results)]
                  @@ [event |-> <<"yield", Head(results)>>]

\* for record in result_generator(cursor): yield Cell.from_db_record(record)
\* inside the try of the function: r is what result_generator came to
ForRecord(r) ==
    LET g == [frame |-> r.frame, session |-> r.session, log |-> r.log]
    IN  CASE r.event[1] = "yield" ->
                [r EXCEPT !.event = <<"yield", FromDbRecord(r.frame.function, r.event[2])>>]
          [] r.event[1] = "stop" -> Ended(g, <<"stop">>)
          [] r.event[1] = "raise" -> Except(g, r.event[2])

\* the body of a *_as_generator function from its first line to its first yield
Start(g, fate) ==
    IF fate = "connect" \/ ~ConnectOk(g.frame.args)
    THEN { Except(g, "OperationalError") }
    ELSE LET c == Connected(g)
             fn == g.frame.function
             params == Params(fn, g.frame.args)
         IN  IF ~(Placeholders(fn) \subseteq DOMAIN params)
             THEN { Except(c, "KeyError") }
             ELSE IF fate = "execute"
             THEN { Except(c, "ProgrammingError") }
             ELSE { ForRecord(result_generator([c EXCEPT !.session.result_set = rs],
                                               BatchSize, fate))
                    : rs \in Sql(fn, params, SortOf(fn, g.frame.args)) }

\* variant of Resume: a finished generator runs its function again
Resume_restarting(g, fate) ==
    CASE g.frame.state = "created" -> Start(g, fate)
      [] g.frame.state = "suspended" -> { ForRecord(result_generator(g, BatchSize, fate)) }
      [] g.frame.state = "finished" ->
            Start([g EXCEPT !.frame = NewFrame(g.frame.function, g.frame.args)], fate)

\* one next() on the generator: the outcomes it can have
Resume(g, fate) ==
    CASE g.frame.state = "created" -> Start(g, fate)
      [] g.frame.state = "suspended" -> { ForRecord(result_generator(g, BatchSize, fate)) }
      [] g.frame.state = "finished" -> { g @@ [event |-> <<"stop">>] }

\* list(generator): next() until it stops or raises; the n-th next() meets fate
RECURSIVE Drain(_, _, _, _)
Drain(g, acc, fate, n) ==
    UNION { CASE r.event[1] = "yield" ->
                    Drain([frame |-> r.frame, session |-> r.session, log |-> r.log],
                          Append(acc, r.event[2]), fate, n - 1)
              [] r.event[1] = "stop" -> { r @@ [status |-> "returned", value |-> Some(acc)] }
              [] r.event[1] = "raise" -> { r @@ [status |-> "raised", value |-> NULL] }
          : r \in Resume(g, IF n = 1 THEN fate ELSE "ok") }

Prefixes(seq) == { SubSeq(seq, 1, k) : k \in 0..Len(seq) }

\* the body of a *_to_file function; the file is what copy_expert wrote
ToFile(g, fate) ==
    IF fate = "connect" \/ ~ConnectOk(g.frame.args)
    THEN { Except(g, "OperationalError") @@ [file |-> NULL] }
    ELSE LET c == Connected(g)
             fn == g.frame.function
             params == Params(fn, g.frame.args)
         IN  IF ~(Placeholders(fn) \subseteq DOMAIN params)
             THEN { Except(c, "KeyError") @@ [file |-> Some(<<>>)] }
             ELSE UNION {
                 LET out == IF fn \in CellFunctions
                            THEN Copy(CellHeader, rs, CellLine)
                            ELSE Copy(TileHeader, rs, TileLine)
                 IN  IF fate = "execute"
                     THEN { Except(c, "ProgrammingError") @@ [file |-> Some(part)]
                            : part \in Prefixes(out) }
                     ELSE { Ended(c, <<"stop">>) @@ [file |-> Some(out)] }
                 : rs \in Sql(fn, params, SortOf(fn, g.frame.args)) }

\* the body of list_tiles_wkt; value is what it returns
Wkt(g, fate) ==
    IF fate = "connect" \/ ~ConnectOk(g.frame.args)
    THEN { Except(g, "OperationalError") @@ [value |-> NULL] }
    ELSE LET c == Connected(g)
             fn == g.frame.function
             params == Params(fn, g.frame.args)
         IN  IF ~(Placeholders(fn) \subseteq DOMAIN params)
             THEN { Except(c, "KeyError") @@ [value |-> NULL] }
             ELSE IF fate = "execute"
             THEN { Except(c, "ProgrammingError") @@ [value |-> NULL] }
             ELSE IF fate = "fetch"
             THEN { Except(c, "DatabaseError") @@ [value |-> NULL] }
             ELSE { Ended([c EXCEPT !.session.result_set = rs, !.session.position = Len(rs)],
                          <<"stop">>)
                    @@ [value |-> Some(MapSeq(rs, Tile_from_db_record))]
                    : rs \in Sql(fn, params, ASC) }

(***************************************************************************)
(* The requests a caller makes                                             *)
(***************************************************************************)
BaseRequest ==
    [x |-> {150, 151}, y |-> {-34, -33}, satellites |-> {"LS5", "LS7"},
     acq_min |-> <<2000, 1, 1>>, acq_max |-> <<2001, 12, 31>>, years |-> {2000, 2001},
     datasets |-> {"ARG25", "PQ25", "FC25"}, filename |-> "cells.csv",
     wkt |-> {<<150, -34>>},
     database |-> "datacube", user |-> "cube_user", password |-> "secret",
     host |-> "dbhost", port |-> "5432", sort |-> ASC,
     time_interval |-> TimeInterval(MIN_INSTANT, MAX_INSTANT)]

\* the whole range ascending and descending, fewer required datasets, the one
\* day of the first acquisition, and a day on which nothing was acquired
Requests ==
    { BaseRequest,
      [BaseRequest EXCEPT !.sort = DESC],
      [BaseRequest EXCEPT !.datasets = {"ARG25"}],
      [BaseRequest EXCEPT !.acq_min = <<2000, 2, 1>>, !.acq_max = <<2000, 2, 1>>,
                          !.years = {2000}],
      [BaseRequest EXCEPT !.acq_min = <<2000, 2, 2>>, !.acq_max = <<2000, 2, 2>>,
                          !.years = {1999}] }

\* the intervals tile_list is called with: all of time, one that ends at the
\* midnight that begins the day of the first acquisition, one that ends in the
\* hour before it, and one that begins in the hour after it
TimeIntervals ==
    { TimeInterval(MIN_INSTANT, MAX_INSTANT),
      TimeInterval(<<2000, 1, 1, 0>>, <<2000, 2, 1, 0>>),
      TimeInterval(<<2000, 1, 1, 0>>, <<2000, 2, 1, 9>>),
      TimeInterval(<<2000, 2, 1, 11>>, <<2002, 1, 1, 0>>) }

\* the keyword arguments fn is called with
Arguments(fn, req) == [name \in Range(Signature(fn)) |-> req[name]]

Idle ==
    [status |-> "idle", function |-> "none", request |-> BaseRequest,
     received |-> <<>>, value |-> NULL, raised |-> "none", file |-> NULL, log |-> 0,
     again |-> 0, arguments |-> <<>>]

\* credentials the server accepts and credentials it refuses
CredentialSets ==
    { [database |-> "datacube", user |-> "cube_user", password |-> pw,
       host |-> "dbhost", port |-> "5432"] : pw \in {"secret", "guess"} }

\* Stopwatch.__init__
Stopwatch__init__ ==
    [elapsed_time |-> 0, cpu_time |-> 0,
     start_elapsed_time |-> NULL, start_cpu_time |-> NULL, running |-> FALSE]

NoFiles == [path \in {} |-> NULL]

\* the state outside the query functions when a caller of query.py starts:
\* a context made with the credentials of the requests, a new stopwatch, the
\* usual umask 0o022
Elsewhere ==
    /\ context = DatacubeQueryContext(
                    [database |-> BaseRequest.database, user |-> BaseRequest.user,
                     password |-> BaseRequest.password, host |-> BaseRequest.host,
                     port |-> BaseRequest.port])
    /\ stopwatch = Stopwatch__init__
    /\ clock = [time |-> 0, cpu |-> 0]
    /\ ran = [time |-> 0, observed |-> 0]
    /\ umask = 18
    /\ files = NoFiles

(***************************************************************************)
(* Actions                                                                 *)
(***************************************************************************)
\* a call of a generator function creates the generator and runs none of it
CallGenerator(fn, req) ==
    /\ caller.status = "idle"
    /\ fn \in Generators \cup Aliases
    /\ LET gen == Resolve(fn, OwnArguments(fn, Arguments(fn, req)))
       IN  frame' = NewFrame(gen.function, gen.args)
    /\ caller' = [Idle EXCEPT !.status = "iterating", !.function = fn, !.request = req]
    /\ UNCHANGED <<tile, session>>
    /\ UNCHANGED outside_query

\* the caller asks the generator for its next record
NextRecord ==
    /\ frame.function \in Generators
    /\ \/ caller.status = "iterating"
       \/ caller.status = "exhausted" /\ caller.again < MaxAgain
    /\ \E fate \in Fates :
         \E r \in Resume([frame |-> frame, session |-> session, log |-> caller.log], fate) :
            /\ frame' = r.frame
            /\ session' = r.session
            /\ caller' =
                 CASE r.event[1] = "yield" ->
                        [caller EXCEPT !.received = Append(caller.received, r.event[2]),
                                       !.log = r.log]
                   [] r.event[1] = "stop" ->
                        [caller EXCEPT !.status = "exhausted", !.log = r.log,
                                       !.again = IF caller.status = "exhausted"
                                                 THEN caller.again + 1 ELSE caller.again]
                   [] r.event[1] = "raise" ->
                        [caller EXCEPT !.status = "raised", !.raised = r.event[2],
                                       !.log = r.log]
    /\ UNCHANGED tile
    /\ UNCHANGED outside_query

\* a call of a *_as_list function: list() of the generator it asks for
CallList(fn, req) ==
    /\ caller.status = "idle"
    /\ fn \in Lists
    /\ \E script \in ((Fates \ {"fetch"}) \X {1}) \cup ({"fetch"} \X (1..(Cardinality(tile) + 1))) :
         LET d == Delegate(fn, Arguments(fn, req))
             gen == Resolve(d[1], d[2])
         IN  \E r \in Drain([frame |-> NewFrame(gen.function, gen.args),
                             session |-> NoSession, log |-> 0], <<>>, script[1], script[2]) :
                /\ frame' = r.frame
                /\ session' = r.session
                /\ caller' = [Idle EXCEPT !.status = r.status, !.function = fn,
                                          !.request = req, !.value = r.value,
                                          !.raised = IF r.event[1] = "raise"
                                                     THEN r.event[2] ELSE "none",
                                          !.log = r.log]
    /\ UNCHANGED tile
    /\ UNCHANGED outside_query

\* the request a call on the context amounts to: the credentials are the context's
OnContext(req, ti) ==
    [req EXCEPT !.time_interval = ti,
                !.database = context.db_credentials.database,
                !.user = context.db_credentials.user,
                !.password = context.db_credentials.password,
                !.host = context.db_credentials.host,
                !.port = context.db_credentials.port]

\* DatacubeQueryContext.tile_list run on the context with the interval ti
TileList(req, ti) ==
    /\ context # NoContext
    /\ \E script \in ((Fates \ {"fetch"}) \X {1}) \cup ({"fetch"} \X (1..(Cardinality(tile) + 1))) :
         LET d == tile_list(context, req.x, req.y, req.satellites, ti, req.datasets, req.sort)
             gen == Resolve(d[1], d[2])
         IN  \E r \in Drain([frame |-> NewFrame(gen.function, gen.args),
                             session |-> NoSession, log |-> 0], <<>>, script[1], script[2]) :
                /\ frame' = r.frame
                /\ session' = r.session
                /\ caller' = [Idle EXCEPT !.status = r.status, !.function = "tile_list",
                                          !.request = OnContext(req, ti),
                                          !.value = r.value,
                                          !.raised = IF r.event[1] = "raise"
                                                     THEN r.event[2] ELSE "none",
                                          !.log = r.log]
    /\ UNCHANGED tile
    /\ UNCHANGED outside_query

\* a call of tile_list with an interval the caller has at hand
CallTileList(req, ti) ==
    /\ caller.status = "idle"
    /\ TileList(req, ti)

\* DatacubeQueryContext(db_credentials)
NewContext(db_credentials) ==
    /\ context = NoContext
    /\ context' = DatacubeQueryContext(db_credentials)
    /\ UNCHANGED <<tile, frame, session, caller, stopwatch, clock, ran, umask, files>>

\* TimeInterval(...) called with, or without, each of its two arguments
NewTimeInterval(start_arg, end_arg) ==
    /\ caller.function \in {"none", "TimeInterval", "tile_list"}
    /\ LET given == TimeInterval_defaults(start_arg, end_arg)
           self == TimeInterval(given[1], given[2])
       IN  caller' = IF "raised" \in DOMAIN self
                     THEN [Idle EXCEPT !.status = "raised", !.function = "TimeInterval",
                                       !.arguments = <<start_arg, end_arg>>,
                                       !.raised = self.raised]
                     ELSE [Idle EXCEPT !.status = "returned", !.function = "TimeInterval",
                                       !.arguments = <<start_arg, end_arg>>,
                                       !.value = Some(self)]
    /\ frame' = NoFrame
    /\ UNCHANGED <<tile, session>>
    /\ UNCHANGED outside_query

\* a call of tile_list with the interval just constructed
CallTileListWith(req) ==
    /\ caller.function = "TimeInterval"
    /\ caller.status = "returned"
    /\ TileList(req, caller.value[1])

\* a call of a *_to_file function
CallToFile(fn, req) ==
    /\ caller.status = "idle"
    /\ fn \in Exports
    /\ \E fate \in Fates :
         \E r \in ToFile([frame |-> NewFrame(fn, Arguments(fn, req)),
                          session |-> NoSession, log |-> 0], fate) :
            /\ frame' = [r.frame EXCEPT !.conn = "None", !.cursor = "None"]
            /\ session' = r.session
            /\ caller' = [Idle EXCEPT !.status = IF r.event[1] = "raise"
                                                 THEN "raised" ELSE "returned",
                                      !.function = fn, !.request = req,
                                      !.raised = IF r.event[1] = "raise"
                                                 THEN r.event[2] ELSE "none",
                                      !.file = r.file, !.log = r.log]
    /\ UNCHANGED tile
    /\ UNCHANGED outside_query

\* a call of list_tiles_wkt
CallWkt(req) ==
    /\ caller.status = "idle"
    /\ \E fate \in Fates :
         \E r \in Wkt([frame |-> NewFrame("list_tiles_wkt", Arguments("list_tiles_wkt", req)),
                       session |-> NoSession, log |-> 0], fate) :
            /\ frame' = r.frame
            /\ session' = r.session
            /\ caller' = [Idle EXCEPT !.status = IF r.event[1] = "raise"
                                                 THEN "raised" ELSE "returned",
                                      !.function = "list_tiles_wkt", !.request = req,
                                      !.value = r.value,
                                      !.raised = IF r.event[1] = "raise"
                                                 THEN r.event[2] ELSE "none",
                                      !.log = r.log]
    /\ UNCHANGED tile
    /\ UNCHANGED outside_query

\* one next() on result_generator(cursor, size) called on its own: nothing
\* around it handles what cursor.fetchmany raises
NextResult ==
    /\ frame.function = "result_generator"
    /\ \/ caller.status = "iterating"
       \/ caller.status = "exhausted" /\ caller.again < MaxAgain
    /\ \E fate \in {"ok", "fetch"} :
         LET g == [frame |-> frame, session |-> session, log |-> caller.log]
             r == IF frame.state = "finished" THEN g @@ [event |-> <<"stop">>]
                  ELSE result_generator(g, frame.args.size, fate)
         IN  /\ frame' = IF r.event[1] = "yield" THEN r.frame
                         ELSE [r.frame EXCEPT !.state = "finished", !.results = <<>>,
                                              !.exception = IF r.event[1] = "raise"
                                                            THEN r.event[2] ELSE @]
             /\ session' = r.session
             /\ caller' =
                  CASE r.event[1] = "yield" ->
                         [caller EXCEPT !.received = Append(caller.received, r.event[2])]
                    [] r.event[1] = "stop" ->
                         [caller EXCEPT !.status = "exhausted",
                                        !.again = IF caller.status = "exhausted"
                                                  THEN caller.again + 1 ELSE caller.again]
                    [] r.event[1] = "raise" ->
                         [caller EXCEPT !.status = "raised", !.raised = r.event[2]]
    /\ UNCHANGED tile
    /\ UNCHANGED outside_query

\* the runtime finalises a connection nothing refers to: no function closes one
Finalize ==
    /\ session.connection = "open"
    /\ ~session.referenced
    /\ session' = [session EXCEPT !.connection = "closed", !.cursor = "closed"]
    /\ UNCHANGED <<tile, frame, caller>>
    /\ UNCHANGED outside_query

Init ==
    /\ tile \in { T \in SUBSET TemporalRows : Cardinality(T) <= MaxTiles }
    /\ frame = NoFrame
    /\ session = NoSession
    /\ caller = Idle
    /\ Elsewhere

InitTerrain ==
    /\ tile \in { T \in SUBSET TerrainRows : Cardinality(T) <= MaxTiles }
    /\ frame = NoFrame
    /\ session = NoSession
    /\ caller = Idle
    /\ Elsewhere

InitGrid ==
    /\ tile \in { T \in SUBSET GridRows : Cardinality(T) <= MaxTiles }
    /\ frame = NoFrame
    /\ session = NoSession
    /\ caller = Idle
    /\ Elsewhere

InitUnsupported ==
    /\ tile \in { T \in SUBSET UnsupportedRows : Cardinality(T) <= MaxTiles }
               \cup { T \in SUBSET UnsupportedTerrainRows : Cardinality(T) <= MaxTiles }
    /\ frame = NoFrame
    /\ session = NoSession
    /\ caller = Idle
    /\ Elsewhere

\* the rows a cursor can hold for result_generator called on its own
PagingRows == { [x_index |-> x, y_index |-> -34] : x \in {150, 151} }

ResultSets == UNION { [1..n -> PagingRows] : n \in 0..MaxRows }

\* result_generator(cursor, size) about to start on a cursor that holds a result set
InitPaging ==
    /\ tile = {}
    /\ frame \in { [NewFrame("result_generator", [size |-> size]) EXCEPT !.cursor = "cursor"]
                   : size \in 1..MaxSize }
    /\ session \in { [NoSession EXCEPT !.connection = "open", !.cursor = "open",
                                       !.result_set = rs, !.referenced = TRUE]
                     : rs \in ResultSets }
    /\ caller = [Idle EXCEPT !.status = "iterating", !.function = "result_generator"]
    /\ Elsewhere

Next ==
    \/ \E fn \in Generators, req \in Requests : CallGenerator(fn, req)
    \/ \E fn \in Aliases : CallGenerator(fn, BaseRequest)
    \/ NextRecord
    \/ \E fn \in Lists, req \in Requests : CallList(fn, req)
    \/ \E ti \in TimeIntervals : CallTileList(BaseRequest, ti)
    \/ \E fn \in Exports, req \in Requests : CallToFile(fn, req)
    \/ \E req \in Requests : CallWkt(req)
    \/ Finalize

Spec == Init /\ [][Next]_vars

SpecTerrain == InitTerrain /\ [][Next]_vars

SpecGrid == InitGrid /\ [][Next]_vars

NextPaging == NextResult

SpecPaging == InitPaging /\ [][NextPaging]_vars

SpecUnsupported == InitUnsupported /\ [][Next]_vars

\* tables for the calls on a context: an empty one, and the three levels of
\* the first acquisition in class SINGLE with any of them in class MOSAIC
ContextTables ==
    { {} } \cup
    { { TileRow(Some(1), l, 150, -34, ONE_DEGREE, SINGLE) : l \in {NBAR, PQA, FC} } \cup T
      : T \in SUBSET { TileRow(Some(1), l, 150, -34, ONE_DEGREE, MOSAIC) : l \in {NBAR, PQA, FC} } }

\* the instants a caller constructs intervals from: the two sentinels, one
\* before the first and one after the last, and the first two months of 2000
Instants ==
    { <<1800, 1, 1, 0>>, MIN_INSTANT, <<2000, 1, 1, 0>>, <<2000, 2, 1, 0>>,
      MAX_INSTANT, <<4000, 1, 1, 0>> }

\* a caller that builds its context and its intervals itself
InitContext ==
    /\ tile \in { T \in ContextTables : Cardinality(T) <= MaxTiles }
    /\ frame = NoFrame
    /\ session = NoSession
    /\ caller = Idle
    /\ context = NoContext
    /\ stopwatch = Stopwatch__init__
    /\ clock = [time |-> 0, cpu |-> 0]
    /\ ran = [time |-> 0, observed |-> 0]
    /\ umask = 18
    /\ files = NoFiles

NextContext ==
    \/ \E db_credentials \in CredentialSets : NewContext(db_credentials)
    \/ \E start_arg, end_arg \in {NULL} \cup { Some(i) : i \in Instants } :
          NewTimeInterval(start_arg, end_arg)
    \/ \E req \in {BaseRequest, [BaseRequest EXCEPT !.sort = DESC]} : CallTileListWith(req)
    \/ Finalize

SpecContext == InitContext /\ [][NextContext]_vars

(***************************************************************************)
(* slice_file.py: the script that slices a file into N files.  A file is a *)
(* sequence of lines, each with its line end; the script runs in a working *)
(* directory that holds its input.                                         *)
(***************************************************************************)
MaxLines == 4
MaxSlices == 3

File(lines) == [kind |-> "file", lines |-> lines]

\* parser.parse_args(): "-r", "--repeat_header" has action="store_false", so
\* the attribute is False when the flag is given and True when it is not
parse_args(argv) ==
    [slices |-> argv.n, file |-> argv.f, repeat_header |-> ~argv.r]

\* in_file.readline(): the line at the offset, the empty string at the end
Readline(lines, offset) == IF offset < Len(lines) THEN lines[offset + 1] ELSE ""

\* the offset after in_file.readline()
AfterReadline(lines, offset) == IF offset < Len(lines) THEN offset + 1 ELSE offset

\* out_file.write(line): the empty string adds nothing
Write(written, line) == IF line = "" THEN written ELSE Append(written, line)

\* variant of LinesPerFile: int(math.floor(line_count / (file_count * 1.0)))
LinesPerFile_floor(line_count, file_count) == line_count \div file_count

\* int(math.ceil(line_count / (file_count * 1.0)))
LinesPerFile(line_count, file_count) == (line_count + file_count - 1) \div file_count

\* for i in range(0, lines_per_file):
\*     line = in_file.readline()
\*     if line is None: break
\*     out_file.write(line)
RECURSIVE CopyLines(_, _, _, _)
CopyLines(lines, offset, written, n) ==
    IF n <= 0 THEN [offset |-> offset, written |-> written]
    ELSE LET line == Readline(lines, offset)
         IN  IF line = "None" THEN [offset |-> offset, written |-> written]
             ELSE CopyLines(lines, AfterReadline(lines, offset), Write(written, line), n - 1)

\* file_name = "out_%d.csv" % file_no
OutName(file_no) == "out_" \o ToString(file_no) \o ".csv"

\* the script after args = parser.parse_args()
SliceFrame(args) ==
    [function |-> "slice_file", args |-> args, state |-> "parsed",
     file_count |-> 0, line_count |-> 0, header |-> "None", lines_per_file |-> 0,
     file_no |-> 0, offset |-> 0, exception |-> "none"]

\* lines 26-38: the first pass counts the lines after the header, then
\* lines_per_file is computed; dividing by zero slices ends the script
SliceCount ==
    /\ frame.function = "slice_file" /\ frame.state = "parsed"
    /\ LET lines == files[frame.args.file].lines
           file_count == frame.args.slices
           header == IF frame.args.repeat_header THEN Readline(lines, 0) ELSE "None"
           offset == IF frame.args.repeat_header THEN AfterReadline(lines, 0) ELSE 0
           line_count == Len(lines) - offset
       IN  IF file_count = 0
           THEN /\ frame' = [frame EXCEPT !.state = "raised", !.line_count = line_count,
                                          !.header = header,
                                          !.exception = "ZeroDivisionError"]
                /\ caller' = [caller EXCEPT !.status = "raised",
                                            !.raised = "ZeroDivisionError"]
           ELSE /\ frame' = [frame EXCEPT !.state = "counted", !.file_count = file_count,
                                          !.line_count = line_count, !.header = header,
                                          !.lines_per_file = LinesPerFile(line_count, file_count)]
                /\ caller' = caller
    /\ UNCHANGED <<tile, session, context, stopwatch, clock, ran, umask, files>>

\* lines 42-44: the input is opened again and the header read past
SliceRewind ==
    /\ frame.function = "slice_file" /\ frame.state = "counted"
    /\ LET lines == files[frame.args.file].lines
       IN  frame' = [frame EXCEPT !.state = "slicing", !.file_no = 1,
                                  !.header = IF frame.args.repeat_header
                                             THEN Readline(lines, 0) ELSE frame.header,
                                  !.offset = IF frame.args.repeat_header
                                             THEN AfterReadline(lines, 0) ELSE 0]
    /\ UNCHANGED <<tile, session, caller, context, stopwatch, clock, ran, umask, files>>

\* lines 45-55: one turn of "for file_no in range(1, file_count+1)"
SliceWrite ==
    /\ frame.function = "slice_file" /\ frame.state = "slicing"
    /\ frame.file_no <= frame.file_count
    /\ LET lines == files[frame.args.file].lines
           file_name == OutName(frame.file_no)
           opened == IF frame.args.repeat_header THEN Write(<<>>, frame.header) ELSE <<>>
           copied == CopyLines(lines, frame.offset, opened, frame.lines_per_file)
       IN  /\ files' = [path \in DOMAIN files \cup {file_name} |->
                           IF path = file_name THEN File(copied.written) ELSE files[path]]
           /\ frame' = [frame EXCEPT !.file_no = frame.file_no + 1, !.offset = copied.offset]
    /\ UNCHANGED <<tile, session, caller, context, stopwatch, clock, ran, umask>>

\* the loop is over and the script ends
SliceExit ==
    /\ frame.function = "slice_file" /\ frame.state = "slicing"
    /\ frame.file_no > frame.file_count
    /\ frame' = [frame EXCEPT !.state = "done"]
    /\ caller' = [caller EXCEPT !.status = "returned"]
    /\ UNCHANGED <<tile, session, context, stopwatch, clock, ran, umask, files>>

\* the inputs: every file of up to MaxLines lines over two line texts
InputFiles == UNION { [1..n -> {"a", "b"}] : n \in 0..MaxLines }

\* the command lines: -n N -f in.csv, with and without -r
CommandLines == [n : 0..MaxSlices, f : {"in.csv"}, r : BOOLEAN]

InitSlice ==
    /\ tile = {}
    /\ session = NoSession
    /\ context = NoContext
    /\ stopwatch = Stopwatch__init__
    /\ clock = [time |-> 0, cpu |-> 0]
    /\ ran = [time |-> 0, observed |-> 0]
    /\ umask = 18
    /\ \E lines \in InputFiles : files = [path \in {"in.csv"} |-> File(lines)]
    /\ \E argv \in CommandLines :
          /\ frame = SliceFrame(parse_args(argv))
          /\ caller = [Idle EXCEPT !.status = "running", !.function = "slice_file",
                                   !.arguments = argv]

NextSlice == SliceCount \/ SliceRewind \/ SliceWrite \/ SliceExit

SpecSlice == InitSlice /\ [][NextSlice]_vars

(***************************************************************************)
(* cube_util.Stopwatch.  Times are whole ticks of the two clocks: the wall *)
(* clock time.time() and the processor clock time.clock().                 *)
(***************************************************************************)
\* the two clocks are followed up to this reading
MaxClock == 3

\* variant of Stopwatch_start: the start times taken whether running or not
Stopwatch_start_restarting(self, now) ==
    [self EXCEPT !.start_elapsed_time = Some(now.time),
                 !.start_cpu_time = Some(now.cpu),
                 !.running = TRUE]

\* Stopwatch.start
Stopwatch_start(self, now) ==
    IF ~self.running
    THEN [self EXCEPT !.start_elapsed_time = Some(now.time),
                      !.start_cpu_time = Some(now.cpu),
                      !.running = TRUE]
    ELSE self

\* Stopwatch.stop
Stopwatch_stop(self, now) ==
    IF self.running
    THEN [self EXCEPT !.elapsed_time = self.elapsed_time + (now.time - self.start_elapsed_time[1]),
                      !.cpu_time = self.cpu_time + (now.cpu - self.start_cpu_time[1]),
                      !.start_elapsed_time = NULL,
                      !.start_cpu_time = NULL,
                      !.running = FALSE]
    ELSE self

\* variant of Stopwatch_reset: the accumulated times cleared, the rest kept
Stopwatch_reset_times_only(self) == [self EXCEPT !.elapsed_time = 0, !.cpu_time = 0]

\* Stopwatch.reset: self.__init__()
Stopwatch_reset(self) == Stopwatch__init__

\* variant of Stopwatch_read: the start times left where they were
Stopwatch_read_keeping_start(self, now) ==
    IF self.running
    THEN [self EXCEPT !.elapsed_time = self.elapsed_time + (now.time - self.start_elapsed_time[1]),
                      !.cpu_time = self.cpu_time + (now.cpu - self.start_cpu_time[1])]
    ELSE self

\* Stopwatch.read: the object after the call; the call returns its
\* (elapsed_time, cpu_time)
Stopwatch_read(self, now) ==
    IF self.running
    THEN [self EXCEPT !.elapsed_time = self.elapsed_time + (now.time - self.start_elapsed_time[1]),
                      !.cpu_time = self.cpu_time + (now.cpu - self.start_cpu_time[1]),
                      !.start_elapsed_time = Some(now.time),
                      !.start_cpu_time = Some(now.cpu)]
    ELSE self

\* what the caller of a Stopwatch method holds: the method, the object as the
\* call found it, and what the call returned
Called(method, value) ==
    [Idle EXCEPT !.status = "returned", !.function = method,
                 !.arguments = <<stopwatch>>, !.value = value]

StopwatchStart ==
    /\ stopwatch' = Stopwatch_start(stopwatch, clock)
    /\ caller' = Called("Stopwatch.start", NULL)
    /\ UNCHANGED <<tile, frame, session, context, clock, ran, umask, files>>

\* a stop takes the time run into account
StopwatchStop ==
    /\ stopwatch' = Stopwatch_stop(stopwatch, clock)
    /\ caller' = Called("Stopwatch.stop", NULL)
    /\ ran' = IF stopwatch.running THEN [ran EXCEPT !.observed = ran.time] ELSE ran
    /\ UNCHANGED <<tile, frame, session, context, clock, umask, files>>

StopwatchRead ==
    /\ stopwatch' = Stopwatch_read(stopwatch, clock)
    /\ caller' = Called("Stopwatch.read",
                        Some(<<stopwatch'.elapsed_time, stopwatch'.cpu_time>>))
    /\ ran' = IF stopwatch.running THEN [ran EXCEPT !.observed = ran.time] ELSE ran
    /\ UNCHANGED <<tile, frame, session, context, clock, umask, files>>

\* the history starts again with a reset
StopwatchReset ==
    /\ stopwatch' = Stopwatch_reset(stopwatch)
    /\ caller' = Called("Stopwatch.reset", NULL)
    /\ ran' = [time |-> 0, observed |-> 0]
    /\ UNCHANGED <<tile, frame, session, context, clock, umask, files>>

\* time passes: the wall clock by dt, the processor clock by dcpu
Tick(dt, dcpu) ==
    /\ clock.time + dt <= MaxClock
    /\ clock.cpu + dcpu <= MaxClock
    /\ clock' = [time |-> clock.time + dt, cpu |-> clock.cpu + dcpu]
    /\ ran' = IF stopwatch.running THEN [ran EXCEPT !.time = ran.time + dt] ELSE ran
    /\ UNCHANGED <<tile, frame, session, caller, context, stopwatch, umask, files>>

\* a new stopwatch, at any reading of the clocks
InitStopwatch ==
    /\ tile = {}
    /\ frame = NoFrame
    /\ session = NoSession
    /\ caller = Idle
    /\ context = NoContext
    /\ stopwatch = Stopwatch__init__
    /\ clock \in [time : 0..1, cpu : 0..1]
    /\ ran = [time |-> 0, observed |-> 0]
    /\ umask = 18
    /\ files = NoFiles

NextStopwatch ==
    \/ StopwatchStart
    \/ StopwatchStop
    \/ StopwatchRead
    \/ StopwatchReset
    \/ \E dt \in 1..2, dcpu \in 0..1 : Tick(dt, dcpu)

SpecStopwatch == InitStopwatch /\ [][NextStopwatch]_vars

(***************************************************************************)
(* cube_util.create_directory, on a file system of two paths: "a" and      *)
(* "a/b".  Modes and masks are the numbers of their octal notation.        *)
(***************************************************************************)
Dir(mode) == [kind |-> "dir", mode |-> mode]

\* os.path.split(name)[0]
Parent(name) == IF name = "a/b" THEN "a" ELSE ""

\* os.path.isdir(dirname)
IsDir(fs, name) == name \in DOMAIN fs /\ fs[name].kind = "dir"

\* the owner may write into a directory of this mode (bit 0o200)
Writable(mode) == (mode \div 128) % 2 = 1

\* the mode of a directory made with mode 0o777 under the mask
ModeUnder(mask) == 511 - mask

\* os.mkdir(name, 0o777): the file system after it and the errno it failed with
mkdir(fs, name, mask) ==
    LET head == Parent(name)
    IN  IF name \in DOMAIN fs THEN [files |-> fs, errno |-> "EEXIST"]
        ELSE IF head # "" /\ head \notin DOMAIN fs THEN [files |-> fs, errno |-> "ENOENT"]
        ELSE IF head # "" /\ fs[head].kind # "dir" THEN [files |-> fs, errno |-> "ENOTDIR"]
        ELSE IF head # "" /\ ~Writable(fs[head].mode) THEN [files |-> fs, errno |-> "EACCES"]
        ELSE [files |-> [path \in DOMAIN fs \cup {name} |->
                            IF path = name THEN Dir(ModeUnder(mask)) ELSE fs[path]],
              errno |-> "none"]

\* os.makedirs(name): the missing parent first, then the leaf
RECURSIVE makedirs(_, _, _)
makedirs(fs, name, mask) ==
    LET head == Parent(name)
    IN  IF head # "" /\ head \notin DOMAIN fs
        THEN LET made == makedirs(fs, head, mask)
             IN  IF made.errno \notin {"none", "EEXIST"} THEN made
                 ELSE mkdir(made.files, name, mask)
        ELSE mkdir(fs, name, mask)

\* variant of RestoredUmask: the mask put back on the path without an error only
RestoredUmask_unless_error(f, current) ==
    IF f.exception = "none" THEN f.old_umask ELSE current

\* finally: os.umask(old_umask)
RestoredUmask(f, current) == f.old_umask

\* the call, and line 222: old_umask = os.umask(0o007)
CreateDirectoryCall(dirname) ==
    /\ \/ frame.function = "none"
       \/ frame.function = "create_directory" /\ frame.state \in {"returned", "raised"}
    /\ frame' = [function |-> "create_directory", args |-> [dirname |-> dirname],
                 state |-> "try", old_umask |-> umask, exception |-> "none",
                 pending |-> "none"]
    /\ umask' = 7
    /\ caller' = [Idle EXCEPT !.status = "running", !.function = "create_directory",
                              !.arguments = <<dirname, umask>>]
    /\ UNCHANGED <<tile, session, context, stopwatch, clock, ran, files>>

\* lines 224-228: os.makedirs(dirname), and the handler of its OSError; the
\* device can fail whatever the paths are
CreateDirectoryTry ==
    /\ frame.function = "create_directory" /\ frame.state = "try"
    /\ \E fate \in {"ok", "ENOSPC"} :
         LET made == IF fate = "ok" THEN makedirs(files, frame.args.dirname, umask)
                     ELSE [files |-> files, errno |-> fate]
             raises == /\ made.errno # "none"
                       /\ made.errno # "EEXIST" \/ ~IsDir(made.files, frame.args.dirname)
         IN  /\ files' = made.files
             /\ frame' = [frame EXCEPT !.state = "finally", !.exception = made.errno,
                                       !.pending = IF raises THEN "DatasetError"
                                                   ELSE "return"]
    /\ UNCHANGED <<tile, session, caller, context, stopwatch, clock, ran, umask>>

\* lines 229-230: the finally clause, then the function returns or raises
CreateDirectoryFinally ==
    /\ frame.function = "create_directory" /\ frame.state = "finally"
    /\ umask' = RestoredUmask(frame, umask)
    /\ frame' = [frame EXCEPT !.state = IF frame.pending = "return"
                                        THEN "returned" ELSE "raised"]
    /\ caller' = IF frame.pending = "return"
                 THEN [caller EXCEPT !.status = "returned"]
                 ELSE [caller EXCEPT !.status = "raised", !.raised = frame.pending]
    /\ UNCHANGED <<tile, session, context, stopwatch, clock, ran, files>>

\* the file systems a call can find: nothing, a file or a directory at "a",
\* the directory writable or not, and nothing, a file or a directory in it
FileSystems ==
    { NoFiles, [path \in {"a"} |-> File(<<>>)] }
    \cup { [path \in {"a"} |-> Dir(mode)] : mode \in {493, 365} }
    \cup { [path \in {"a", "a/b"} |-> IF path = "a" THEN Dir(mode) ELSE inside]
           : mode \in {493, 365}, inside \in {File(<<>>), Dir(493)} }

\* the masks a process can run under: 0o000, 0o002, 0o007, 0o022, 0o077
Umasks == {0, 2, 7, 18, 63}

InitDirectory ==
    /\ tile = {}
    /\ frame = NoFrame
    /\ session = NoSession
    /\ caller = Idle
    /\ context = NoContext
    /\ stopwatch = Stopwatch__init__
    /\ clock = [time |-> 0, cpu |-> 0]
    /\ ran = [time |-> 0, observed |-> 0]
    /\ umask \in Umasks
    /\ files \in FileSystems

NextDirectory ==
    \/ \E dirname \in {"a", "a/b"} : CreateDirectoryCall(dirname)
    \/ CreateDirectoryTry
    \/ CreateDirectoryFinally

SpecDirectory == InitDirectory /\ [][NextDirectory]_vars

(***************************************************************************)
(* Vocabulary of the properties                                            *)
(***************************************************************************)
\* the call has ended without an error reaching the caller
Completed == caller.status \in {"returned", "exhausted"}

\* nothing failed inside the call
NoFailure == frame.exception = "none"

\* the records the caller holds: the returned list, or what the generator yielded
Delivered ==
    IF caller.function \in Generators \cup Aliases THEN caller.received
    ELSE IF caller.value = NULL THEN <<>> ELSE caller.value[1]

RowsOf(resultSets) == UNION { Range(rs) : rs \in resultSets }

\* the surface reflectance tiles of the supported type and classes that match
\* the satellite, grid and date filters of a request
QualifyingNbar(req) ==
    { n \in tile :
        /\ n.level_id = NBAR
        /\ n.tile_type_id = ONE_DEGREE
        /\ n.tile_class_id \in {SINGLE, MOSAIC}
        /\ n.x_index \in req.x /\ n.y_index \in req.y
        /\ \E a \in acquisition :
              /\ a.acquisition_id = n.acquisition_id
              /\ a.satellite_tag \in req.satellites
              /\ LexLeq(req.acq_min, DateOf(a.end_datetime))
              /\ LexLeq(DateOf(a.end_datetime), req.acq_max) }

\* a tile of the level exists with the keys (acquisition, x, y, type, class) of n
HasLevel(n, level) ==
    \E t \in tile :
        /\ t.level_id = level
        /\ t.acquisition_id = n.acquisition_id
        /\ t.x_index = n.x_index /\ t.y_index = n.y_index
        /\ t.tile_type_id = n.tile_type_id /\ t.tile_class_id = n.tile_class_id

CellOf(n) == [x |-> n.x_index, y |-> n.y_index]

\* what the present and the missing cell listing answer to a request
PresentCells(req) ==
    { Cell_from_db_record(r) :
        r \in RowsOf(list_cells_as_generator_sql(
                 list_cells_as_generator_params(Arguments("list_cells_as_generator", req)),
                 req.sort)) }

MissingCells(req) ==
    { Cell_from_db_record(r) :
        r \in RowsOf(list_cells_missing_as_generator_sql(
                 list_cells_missing_as_generator_params(
                     Arguments("list_cells_missing_as_generator", req)),
                 req.sort)) }

PresentCellCall == caller.function \in {"list_cells_as_list", "list_cells_as_generator"}
MissingCellCall ==
    caller.function \in {"list_cells_missing_as_list", "list_cells_missing_as_generator"}

\* the two cell listings for the request of a completed cell listing call:
\* the one the call delivered, and the other as the database answers it
PresentSide == IF PresentCellCall THEN Range(Delivered) ELSE PresentCells(caller.request)
MissingSide == IF MissingCellCall THEN Range(Delivered) ELSE MissingCells(caller.request)
QualifyingCells == { CellOf(n) : n \in QualifyingNbar(caller.request) }

CellListingDone == Completed /\ NoFailure /\ (PresentCellCall \/ MissingCellCall)

(***************************************************************************)
(* C1 (as stated): the present and the missing cell listing of the same    *)
(* inputs are disjoint and their union is the set of all cells that have a *)
(* qualifying acquisition.                                                 *)
(***************************************************************************)
C1_Partition ==
    CellListingDone =>
        /\ PresentSide \cap MissingSide = {}
        /\ PresentSide \cup MissingSide = QualifyingCells

(***************************************************************************)
(* C1 (amended): both cell listings return qualifying cells only; a        *)
(* qualifying cell is in neither exactly when each of its qualifying       *)
(* surface reflectance tiles has a fractional cover tile but no pixel      *)
(* quality tile; a cell is in both only when it has two qualifying surface *)
(* reflectance tiles, one with both counterparts and one without           *)
(* fractional cover.                                                       *)
(***************************************************************************)
C1_CellListings ==
    CellListingDone =>
        /\ PresentSide \subseteq QualifyingCells
        /\ MissingSide \subseteq QualifyingCells
        /\ \A c \in QualifyingCells :
              (c \notin PresentSide \cup MissingSide)
                 <=> \A n \in QualifyingNbar(caller.request) :
                        CellOf(n) = c => HasLevel(n, FC) /\ ~HasLevel(n, PQA)
        /\ \A c \in PresentSide \cap MissingSide :
              \E n1, n2 \in QualifyingNbar(caller.request) :
                 /\ n1 # n2 /\ CellOf(n1) = c /\ CellOf(n2) = c
                 /\ HasLevel(n1, PQA) /\ HasLevel(n1, FC) /\ ~HasLevel(n2, FC)

\* a completed cell listing whose cell is both present and missing
C1_Witness ==
    /\ CellListingDone
    /\ PresentSide \cap MissingSide # {}
    /\ Range(Delivered) # {}

(***************************************************************************)
(* C2: whenever the connection or the query fails inside a list or export  *)
(* operation, the failure is logged, the transaction is rolled back and no *)
(* error reaches the caller.                                               *)
(***************************************************************************)
CallEnded == caller.status \in {"returned", "exhausted", "raised"}

C2_FailureHandled ==
    (CallEnded /\ frame.exception # "none") =>
        /\ caller.log >= 1
        /\ session.rollbacks >= 1
        /\ caller.raised = "none"

(***************************************************************************)
(* C3: for the cell, missing cell, tile and missing tile listings, the     *)
(* list form returns exactly the records that draining the generator form  *)
(* yields for the same inputs: a result set of the generator's statement,  *)
(* whole and in cursor order when nothing failed, and never records other  *)
(* than a leading part of it.                                              *)
(***************************************************************************)
\* the generator form of each listing
GeneratorForm(fn) ==
    CASE fn \in {"list_cells_as_list", "list_cells_as_generator"} -> "list_cells_as_generator"
      [] fn \in {"list_cells_missing_as_list", "list_cells_missing_as_generator"} ->
            "list_cells_missing_as_generator"
      [] fn \in {"list_tiles_as_list", "list_tiles_as_generator"} -> "list_tiles_as_generator"
      [] fn \in {"list_tiles_missing_as_list", "list_tiles_missing_as_generator"} ->
            "list_tiles_missing_as_generator"
      [] fn \in {"list_tiles_dtm_as_list", "list_tiles_dtm_as_generator"} ->
            "list_tiles_dtm_as_generator"

\* the record sequences a fault-free traversal of the generator form can yield
FullResults(gen, req) ==
    { MapSeq(rs, LAMBDA r : FromDbRecord(gen, r)) :
        rs \in Sql(gen, Params(gen, Arguments(gen, req)), SortOf(gen, Arguments(gen, req))) }

TemporalListing ==
    caller.function \in (Lists \cup Generators)
                        \ {"list_tiles_dtm_as_list", "list_tiles_dtm_as_generator"}

C3_ListEqualsDrainedGenerator ==
    (TemporalListing /\ CallEnded) =>
        LET full == FullResults(GeneratorForm(caller.function), caller.request)
        IN  /\ caller.status # "raised" /\ NoFailure => Delivered \in full
            /\ \E rs \in full : Delivered \in Prefixes(rs)

\* a list form has returned two records or more
C3_Witness ==
    /\ caller.function \in Lists
    /\ caller.status = "returned"
    /\ NoFailure
    /\ Len(Delivered) >= 2

(***************************************************************************)
(* C4: list_tiles_dtm_as_list returns the result of draining               *)
(* list_tiles_dtm_as_generator called with the same arguments.             *)
(***************************************************************************)
C4_DtmListEqualsDrainedGenerator ==
    (caller.function = "list_tiles_dtm_as_list" /\ CallEnded) =>
        /\ caller.status = "returned"
        /\ frame.function = "list_tiles_dtm_as_generator"
        /\ NoFailure => Delivered \in FullResults("list_tiles_dtm_as_generator", caller.request)

(***************************************************************************)
(* C5: once a call has ended (returned, exhausted or failed), no           *)
(* connection or cursor it opened remains open.                            *)
(***************************************************************************)
C5_ResourcesReleased ==
    CallEnded => session.connection # "open" /\ session.cursor # "open"

(***************************************************************************)
(* C6: the CSV an export writes holds the same (x, y) tuples, or the same  *)
(* (acquisition id, x, y) tuples, as the corresponding list operation      *)
(* returns for equivalent inputs on the same database content.             *)
(***************************************************************************)
\* the list operation an export corresponds to
ListingOf(fn) ==
    CASE fn = "list_cells_to_file" -> "list_cells_as_generator"
      [] fn = "list_cells_missing_to_file" -> "list_cells_missing_as_generator"
      [] fn = "list_tiles_to_file" -> "list_tiles_as_generator"
      [] fn = "list_tiles_missing_to_file" -> "list_tiles_missing_as_generator"

\* the data lines of the file parsed back into tuples
FileTuples ==
    IF caller.file = NULL \/ caller.file = Some(<<>>) THEN {}
    ELSE LET lines == Tail(caller.file[1])
         IN  IF caller.function \in CellFunctions
             THEN { <<line[1], line[2]>> : line \in Range(lines) }
             ELSE { <<line[1], line[7], line[8]>> : line \in Range(lines) }

\* the same tuples of the records of the list operation
ListingTuples(gen, req) ==
    IF gen \in CellFunctions
    THEN { <<ToString(r.x), ToString(r.y)>> : r \in RowsOf(FullResults(gen, req)) }
    ELSE { <<CsvField(r.acquisition_id), ToString(r.x), ToString(r.y)>>
           : r \in RowsOf(FullResults(gen, req)) }

\* an export has returned and neither the connection nor the server failed
ExportDone ==
    /\ caller.function \in Exports
    /\ caller.status = "returned"
    /\ frame.exception \in {"none", "KeyError"}

C6_ExportMatchesListing ==
    ExportDone => FileTuples = ListingTuples(ListingOf(caller.function), caller.request)

(***************************************************************************)
(* C7: the present cell listing returns exactly the cells for which every  *)
(* dataset type of the caller's datasets argument has a tile for one       *)
(* acquisition with the same join keys.                                    *)
(***************************************************************************)
\* the level behind each dataset type label of the tile statements
LevelOf(label) ==
    CASE label = "ARG25" -> NBAR
      [] label = "PQ25" -> PQA
      [] label = "FC25" -> FC

C7_RequiredDatasets ==
    (PresentCellCall /\ Completed /\ NoFailure) =>
        Range(Delivered) =
            { CellOf(n) : n \in { q \in QualifyingNbar(caller.request) :
                                    \A d \in caller.request.datasets : HasLevel(q, LevelOf(d)) } }

(***************************************************************************)
(* C8: the missing cell and missing tile listings return a row exactly for *)
(* the surface reflectance tiles that match the filters and have no        *)
(* fractional cover tile with the same (acquisition, x, y, type, class).   *)
(***************************************************************************)
MissingTileCall ==
    caller.function \in {"list_tiles_missing_as_list", "list_tiles_missing_as_generator"}

PresentTileCall == caller.function \in {"list_tiles_as_list", "list_tiles_as_generator"}

LackingFc(req) == { n \in QualifyingNbar(req) : ~HasLevel(n, FC) }

\* the surface reflectance tile a tile record was made from
NbarPath(record) == record.datasets["ARG25"]

C8_MissingExactly ==
    (Completed /\ NoFailure) =>
        /\ MissingCellCall =>
              Range(Delivered) = { CellOf(n) : n \in LackingFc(caller.request) }
        /\ MissingTileCall =>
              /\ { NbarPath(r) : r \in Range(Delivered) }
                    = { n.tile_pathname : n \in LackingFc(caller.request) }
              /\ Len(Delivered) = Cardinality(LackingFc(caller.request))

\* a missing listing returned a row while another matching tile has its counterpart
C8_Witness ==
    /\ Completed /\ NoFailure
    /\ MissingCellCall \/ MissingTileCall
    /\ Delivered # <<>>
    /\ \E n \in QualifyingNbar(caller.request) : HasLevel(n, FC)

(***************************************************************************)
(* C9 and C10: the tile listings, record by record                         *)
(***************************************************************************)
PresentTiles(req) == RowsOf(FullResults("list_tiles_as_generator", req))
MissingTiles(req) == RowsOf(FullResults("list_tiles_missing_as_generator", req))

\* the two tile listings for the request of a completed tile listing call
PresentTileSide == IF PresentTileCall THEN Range(Delivered) ELSE PresentTiles(caller.request)
MissingTileSide == IF MissingTileCall THEN Range(Delivered) ELSE MissingTiles(caller.request)

TileListingDone == Completed /\ NoFailure /\ (PresentTileCall \/ MissingTileCall)

\* (acquisition id, x, y) of a tile record and of a tile row
RecordKey(r) == <<r.acquisition_id, r.x, r.y>>
RowKey(n) == <<n.acquisition_id, n.x_index, n.y_index>>

(***************************************************************************)
(* C9 (as stated): no (acquisition, x, y) is returned by both the present  *)
(* and the missing tile listing; whenever surface reflectance, pixel       *)
(* quality and fractional cover tiles all exist for an acquisition and     *)
(* cell, the present listing returns it and the missing listing does not.  *)
(***************************************************************************)
C9_NoAcquisitionCellInBoth ==
    TileListingDone =>
        /\ { RecordKey(r) : r \in PresentTileSide } \cap { RecordKey(r) : r \in MissingTileSide } = {}
        /\ \A n \in QualifyingNbar(caller.request) :
              HasLevel(n, PQA) /\ HasLevel(n, FC) =>
                 /\ RowKey(n) \in { RecordKey(r) : r \in PresentTileSide }
                 /\ RowKey(n) \notin { RecordKey(r) : r \in MissingTileSide }

(***************************************************************************)
(* C9 (amended): no surface reflectance tile yields a record in both tile  *)
(* listings; a matching tile whose pixel quality and fractional cover      *)
(* counterparts have its (acquisition, x, y, type, class) is returned by   *)
(* the present listing and not by the missing one; an (acquisition, x, y)  *)
(* is in both only through surface reflectance tiles of different classes. *)
(***************************************************************************)
C9_NoTileInBoth ==
    TileListingDone =>
        /\ { NbarPath(r) : r \in PresentTileSide } \cap { NbarPath(r) : r \in MissingTileSide } = {}
        /\ \A n \in QualifyingNbar(caller.request) :
              HasLevel(n, PQA) /\ HasLevel(n, FC) =>
                 /\ n.tile_pathname \in { NbarPath(r) : r \in PresentTileSide }
                 /\ n.tile_pathname \notin { NbarPath(r) : r \in MissingTileSide }
        /\ \A k \in { RecordKey(r) : r \in PresentTileSide } \cap
                    { RecordKey(r) : r \in MissingTileSide } :
              \E n1, n2 \in QualifyingNbar(caller.request) :
                 /\ RowKey(n1) = k /\ RowKey(n2) = k
                 /\ n1.tile_class_id # n2.tile_class_id

\* an acquisition and cell that both tile listings return
C9_Witness ==
    /\ TileListingDone
    /\ Delivered # <<>>
    /\ { RecordKey(r) : r \in PresentTileSide } \cap { RecordKey(r) : r \in MissingTileSide } # {}

(***************************************************************************)
(* C10 (as stated): no two records of one list_tiles result share the same *)
(* (acquisition id, x, y).                                                 *)
(***************************************************************************)
C10_OneRecordPerAcquisitionCell ==
    (PresentTileCall /\ Completed /\ NoFailure) =>
        \A i, j \in DOMAIN Delivered :
            i # j => RecordKey(Delivered[i]) # RecordKey(Delivered[j])

(***************************************************************************)
(* C10 (amended): in a tile table with one tile per (acquisition, level,   *)
(* x, y, type, class), no two records of one list_tiles result are made    *)
(* from the same surface reflectance tile, so the records that share an    *)
(* (acquisition id, x, y) are at most one per supported tile class.        *)
(***************************************************************************)
UniqueTileKeys ==
    \A t, u \in tile :
        (t.level_id = u.level_id /\ RowKey(t) = RowKey(u)
           /\ t.tile_type_id = u.tile_type_id /\ t.tile_class_id = u.tile_class_id) => t = u

C10_OneRecordPerTile ==
    (PresentTileCall /\ Completed /\ NoFailure /\ UniqueTileKeys) =>
        /\ \A i, j \in DOMAIN Delivered :
              i # j => NbarPath(Delivered[i]) # NbarPath(Delivered[j])
        /\ \A i \in DOMAIN Delivered :
              Cardinality({ j \in DOMAIN Delivered :
                               RecordKey(Delivered[j]) = RecordKey(Delivered[i]) })
                 <= Cardinality(TILE_CLASSES)

\* a list_tiles result with two records of one acquisition and cell
C10_Witness ==
    /\ PresentTileCall /\ Completed /\ NoFailure
    /\ \E i, j \in DOMAIN Delivered :
          i # j /\ RecordKey(Delivered[i]) = RecordKey(Delivered[j])

(***************************************************************************)
(* C11: every temporal tile listing (present and missing, generator, list  *)
(* and export) orders its records by acquisition end timestamp in the      *)
(* requested direction, ties broken by satellite tag ascending.            *)
(***************************************************************************)
\* end timestamp in the direction of sort, then satellite tag ascending
EndThenSatellite(r, sort) ==
    Scale(Direction(sort), r.end_datetime[1]) \o <<SatelliteRank(r.satellite[1])>>

OrderedByEnd(seq, sort) ==
    \A i, j \in DOMAIN seq :
        i < j => LexLeq(EndThenSatellite(seq[i], sort), EndThenSatellite(seq[j], sort))

TileExportCall == caller.function \in {"list_tiles_to_file", "list_tiles_missing_to_file"}

\* the data lines of the file an export wrote
ExportedLines ==
    IF caller.file = NULL \/ caller.file = Some(<<>>) THEN <<>> ELSE Tail(caller.file[1])

C11_TilesOrderedByEnd ==
    /\ (TileListingDone => OrderedByEnd(Delivered, caller.request.sort))
    /\ (TileExportCall /\ ExportDone /\ NoFailure) =>
          \E rs \in Sql(caller.function,
                        Params(caller.function, Arguments(caller.function, caller.request)),
                        caller.request.sort) :
             /\ ExportedLines = MapSeq(rs, TileLine)
             /\ OrderedByEnd(rs, caller.request.sort)

(***************************************************************************)
(* C12: for a fixed database content and fixed inputs every list operation *)
(* has exactly one possible result sequence.                               *)
(***************************************************************************)
C12_SingleResultSequence ==
    (caller.function \in Lists \cup Generators /\ Completed /\ NoFailure) =>
        Cardinality(FullResults(GeneratorForm(caller.function), caller.request)) = 1

(***************************************************************************)
(* C13: for the present and the missing cell listing, the result with      *)
(* sort=DESC is exactly the reverse of the result with sort=ASC for the    *)
(* same inputs and database content, and both hold the same cells.         *)
(***************************************************************************)
Reverse(seq) == [i \in DOMAIN seq |-> seq[Len(seq) + 1 - i]]

Opposite(sort) == IF sort = ASC THEN DESC ELSE ASC

\* the results the same cell listing has for the same inputs sorted the other way
OppositeResults ==
    FullResults(GeneratorForm(caller.function),
                [caller.request EXCEPT !.sort = Opposite(caller.request.sort)])

C13_DescendingIsReverse ==
    CellListingDone =>
        /\ OppositeResults = { Reverse(Delivered) }
        /\ \A rs \in OppositeResults : Range(rs) = Range(Delivered)

\* a descending cell listing of cells that differ in x and of cells that differ in y
C13_Witness ==
    /\ CellListingDone
    /\ caller.request.sort = DESC
    /\ \E c, d \in Range(Delivered) : c.x # d.x
    /\ \E c, d \in Range(Delivered) : c.x = d.x /\ c.y # d.y

(***************************************************************************)
(* C14: tile_list called with a TimeInterval [start, end) returns only     *)
(* tiles whose acquisition end timestamp t satisfies start <= t < end.     *)
(***************************************************************************)
C14_HalfOpenInterval ==
    (caller.function = "tile_list" /\ caller.status = "returned" /\ NoFailure) =>
        \A r \in Range(Delivered) :
            /\ LexLeq(caller.request.time_interval.start, r.end_datetime[1])
            /\ LexLess(r.end_datetime[1], caller.request.time_interval.end)

(***************************************************************************)
(* C15: the date filter of the list operations is inclusive at both bounds *)
(* on the acquisition end date: a record is returned iff                   *)
(* acq_min <= date(end_datetime) <= acq_max, so acq_min = acq_max = d      *)
(* returns exactly the records whose end date is d, and a range matching   *)
(* no acquisition yields an empty sequence without any error.              *)
(***************************************************************************)
\* the acquisitions whose end date lies in the range of the request, bounds included
AcquiredInRange(req) ==
    { a \in acquisition :
        /\ ~LexLess(DateOf(a.end_datetime), req.acq_min)
        /\ ~LexLess(req.acq_max, DateOf(a.end_datetime)) }

\* the surface reflectance tiles a listing of the kind of the call reports when
\* the date filter is left aside
ReportedWhateverTheDate(req) ==
    { n \in tile :
        /\ n.level_id = NBAR
        /\ n.tile_type_id = ONE_DEGREE /\ n.tile_class_id \in TILE_CLASSES
        /\ n.x_index \in req.x /\ n.y_index \in req.y
        /\ \E a \in acquisition :
              a.acquisition_id = n.acquisition_id /\ a.satellite_tag \in req.satellites
        /\ IF PresentCellCall \/ PresentTileCall
           THEN HasLevel(n, PQA) /\ HasLevel(n, FC)
           ELSE ~HasLevel(n, FC) }

\* those of them acquired in the range of the request
ReportedInRange(req) ==
    { n \in ReportedWhateverTheDate(req) :
        \E a \in AcquiredInRange(req) : a.acquisition_id = n.acquisition_id }

C15_DateRangeInclusive ==
    (TemporalListing /\ CallEnded /\ NoFailure) =>
        /\ caller.status # "raised"
        /\ (PresentCellCall \/ MissingCellCall) =>
              Range(Delivered) = { CellOf(n) : n \in ReportedInRange(caller.request) }
        /\ (PresentTileCall \/ MissingTileCall) =>
              /\ { NbarPath(r) : r \in Range(Delivered) }
                    = { n.tile_pathname : n \in ReportedInRange(caller.request) }
              /\ \A r \in Range(Delivered) :
                    /\ LexLeq(caller.request.acq_min, DateOf(r.end_datetime[1]))
                    /\ LexLeq(DateOf(r.end_datetime[1]), caller.request.acq_max)
        /\ AcquiredInRange(caller.request) = {} => Delivered = <<>>

\* a one-day range returned the records of that day and left out another acquisition
C15_Witness ==
    /\ TemporalListing /\ Completed /\ NoFailure
    /\ caller.request.acq_min = caller.request.acq_max
    /\ Delivered # <<>>
    /\ ReportedWhateverTheDate(caller.request) # ReportedInRange(caller.request)

(***************************************************************************)
(* C16: every record a present, missing or terrain query returns derives   *)
(* only from tiles of the supported tile type (ONE_DEGREE) and of class    *)
(* SINGLE or MOSAIC, whatever the caller passes; this holds for the tile   *)
(* of every joined level, not only the primary one.                        *)
(***************************************************************************)
Supported(t) == t.tile_type_id = ONE_DEGREE /\ t.tile_class_id \in {SINGLE, MOSAIC}

\* the supported tiles of a level at a cell
SupportedAt(level, c) ==
    { t \in tile : t.level_id = level /\ CellOf(t) = c /\ Supported(t) }

C17_SilentTruncation ==
    (TemporalListing /\ CallEnded /\ ~NoFailure) =>
        /\ caller.status \in {"exhausted", "returned"}
        /\ caller.raised = "none"
        /\ \E rs \in FullResults(GeneratorForm(caller.function), caller.request) :
              Delivered \in Prefixes(rs)

(***************************************************************************)
(* C18: the generator a *_as_generator function or a deprecated alias      *)
(* returns supports a single traversal: once it is exhausted, asking it    *)
(* again yields no record, executes no statement and opens no connection.  *)
(***************************************************************************)
C18_SingleTraversal ==
    [][caller.status = "exhausted" =>
          /\ caller'.status = "exhausted"
          /\ caller'.received = caller.received
          /\ session'.result_set = session.result_set
          /\ session'.position = session.position
          /\ session'.rollbacks = session.rollbacks
          /\ session'.connection = "open" => session.connection = "open"]_vars

\* an exhausted generator of an alias that delivered records was asked again
C18_Witness ==
    /\ caller.function \in Aliases
    /\ caller.status = "exhausted"
    /\ caller.again >= 1
    /\ caller.received # <<>>

(***************************************************************************)
(* C19: result_generator yields exactly the rows of the cursor's result    *)
(* set, each once and in cursor order; it asks for at most size rows per   *)
(* fetch, so it never holds more than size undelivered rows; and it ends   *)
(* at the first empty batch, for every finite result set.                  *)
(***************************************************************************)
\* what has been yielded and what is held are, in order, the rows fetched so far
PagedInOrder ==
    /\ session.position <= Len(session.result_set)
    /\ caller.received \o frame.results = SubSeq(session.result_set, 1, session.position)
    /\ Len(frame.results) < frame.args.size
    /\ caller.status = "exhausted" => caller.received = session.result_set

\* a fetch takes at most size rows, and the empty batch ends the generator
PagedStep ==
    /\ session'.position - session.position <= frame.args.size
    /\ (caller.status = "iterating" /\ frame.results = <<>>
          /\ session.position = Len(session.result_set) /\ caller'.status # "raised")
         => (caller'.status = "exhausted" /\ caller'.received = caller.received)
    /\ (caller.status = "iterating" /\ caller'.status = "exhausted")
         => (frame.results = <<>> /\ session.position = Len(session.result_set))

C19_PagedExactlyOnce == [](PagedInOrder) /\ [][PagedStep]_vars

\* a result set of several batches, the last one full, has been yielded whole
C19_Witness ==
    /\ caller.function = "result_generator"
    /\ caller.status = "exhausted"
    /\ Len(session.result_set) = 2 * frame.args.size
    /\ frame.args.size >= 2
    /\ caller.received = session.result_set

(***************************************************************************)
(* C20: in every tile record a dataset type for which no tile exists is a  *)
(* key of the dataset mapping with a null path, never an absent key; each  *)
(* record of the missing tile listing has an entry for the absent FC type  *)
(* with a null path.                                                       *)
(***************************************************************************)
\* a tile of the level of the label exists with the keys of the record's
\* surface reflectance tile
TileExistsFor(record, label) ==
    \E n \in tile : n.tile_pathname = NbarPath(record) /\ HasLevel(n, LevelOf(label))

C20_AbsentTypeHasNullPath ==
    TileListingDone =>
        \A r \in Range(Delivered) :
            /\ \A label \in {"ARG25", "PQ25", "FC25"} :
                  ~TileExistsFor(r, label) =>
                      (label \in DOMAIN r.datasets /\ r.datasets[label] = NULL)
            /\ MissingTileCall =>
                  ("FC25" \in DOMAIN r.datasets /\ r.datasets["FC25"] = NULL)

(***************************************************************************)
(* C21 (as stated): the terrain listing returns a record for a cell of the *)
(* requested x and y sets exactly when DSM, DEM, DEM_S and DEM_H tiles all *)
(* exist at the grid indices of the cell with the same tile type and       *)
(* class, joined without any acquisition key; every record reports         *)
(* acquisition id, satellite, start and end timestamps and year and month  *)
(* as null.                                                                *)
(***************************************************************************)
TerrainLevels == {DSM, DEM, DEM_S, DEM_H}

\* the four terrain levels exist at cell c with the type and class of the
\* DSM tile d
CompleteWith(d, c) ==
    /\ d.level_id = DSM /\ CellOf(d) = c
    /\ \A level \in TerrainLevels :
          \E t \in tile :
             /\ t.level_id = level /\ CellOf(t) = c
             /\ t.tile_type_id = d.tile_type_id /\ t.tile_class_id = d.tile_class_id

TerrainListingDone ==
    frame.function = "list_tiles_dtm_as_generator" /\ Completed /\ NoFailure

\* every record is of a requested cell and reports no acquisition
NoAcquisitionReported ==
    \A r \in Range(Delivered) :
        /\ r.x \in caller.request.x /\ r.y \in caller.request.y
        /\ r.acquisition_id = NULL /\ r.satellite = NULL
        /\ r.start_datetime = NULL /\ r.end_datetime = NULL
        /\ r.end_datetime_year = NULL /\ r.end_datetime_month = NULL

AsListTilesRequest ==
    [caller.request EXCEPT !.acq_min = caller.request.time_interval.start,
                           !.acq_max = caller.request.time_interval.end,
                           !.database = context.db_credentials.database,
                           !.user = context.db_credentials.user,
                           !.password = context.db_credentials.password,
                           !.host = context.db_credentials.host,
                           !.port = context.db_credentials.port]

\* every way a call of the list function fn with the request can end: what
\* the caller gets, and the frame and the session it leaves
ListOutcomes(fn, req) ==
    LET d == Delegate(fn, Arguments(fn, req))
        gen == Resolve(d[1], d[2])
        scripts == ((Fates \ {"fetch"}) \X {1}) \cup ({"fetch"} \X (1..(Cardinality(tile) + 1)))
    IN  UNION { { <<r.status, r.value, r.event, r.frame, r.session>>
                  : r \in Drain([frame |-> NewFrame(gen.function, gen.args),
                                 session |-> NoSession, log |-> 0], <<>>, script[1], script[2]) }
                : script \in scripts }

TileListEnded == caller.function = "tile_list" /\ CallEnded

TileListAsListTiles ==
    TileListEnded =>
        \E o \in ListOutcomes("list_tiles_as_list", AsListTilesRequest) :
            /\ o[1] = caller.status
            /\ o[2] = caller.value
            /\ (caller.status = "raised" => o[3] = <<"raise", caller.raised>>)
            /\ o[4] = frame
            /\ o[5].result_set = session.result_set

\* the context is its credentials, from its construction on
ContextKept ==
    context # NoContext =>
        /\ DOMAIN context = {"db_credentials"}
        /\ context' = context

C22_TileListDelegates == [](TileListAsListTiles) /\ [][ContextKept]_vars

\* tile_list returned two records in descending order for an interval the
\* caller constructed with both its bounds
C22_Witness ==
    /\ TileListEnded
    /\ caller.status = "returned" /\ NoFailure
    /\ Len(Delivered) >= 2
    /\ caller.request.sort = DESC
    /\ caller.request.time_interval.start # MIN_INSTANT
    /\ caller.request.time_interval.end # MAX_INSTANT

(***************************************************************************)
(* C23: every constructed TimeInterval satisfies end > start: construction *)
(* with end <= start fails and produces no object, a start at or after the *)
(* default MAX_INSTANT and an end at or before the default MIN_INSTANT     *)
(* included, and TimeInterval() with no arguments is the valid interval    *)
(* from MIN_INSTANT to MAX_INSTANT.                                        *)
(***************************************************************************)
TimeIntervalCalled == caller.function = "TimeInterval" /\ CallEnded

\* the bounds the call asked for: datetime(1900, 1, 1) and datetime(3999, 1, 1)
\* where it left the argument out
AskedStart == IF caller.arguments[1] = NULL THEN <<1900, 1, 1, 0>> ELSE caller.arguments[1][1]
AskedEnd == IF caller.arguments[2] = NULL THEN <<3999, 1, 1, 0>> ELSE caller.arguments[2][1]

C23_EndAfterStart ==
    /\ TimeIntervalCalled =>
          /\ caller.status = "returned" <=> LexLess(AskedStart, AskedEnd)
          /\ caller.status = "returned" =>
                /\ caller.value = Some([start |-> AskedStart, end |-> AskedEnd])
                /\ caller.raised = "none"
          /\ caller.status # "returned" =>
                /\ caller.status = "raised" /\ caller.raised = "AssertionError"
                /\ caller.value = NULL
          /\ caller.arguments = <<NULL, NULL>> =>
                caller.value = Some([start |-> MIN_INSTANT, end |-> MAX_INSTANT])
          /\ (caller.arguments[2] = NULL /\ ~LexLess(AskedStart, MAX_INSTANT)) =>
                caller.status = "raised"
          /\ (caller.arguments[1] = NULL /\ ~LexLess(MIN_INSTANT, AskedEnd)) =>
                caller.status = "raised"
    /\ TileListEnded =>
          LexLess(caller.request.time_interval.start, caller.request.time_interval.end)

\* the construction of an interval that starts at MAX_INSTANT and has the
\* default end has failed
C23_Witness ==
    /\ TimeIntervalCalled
    /\ caller.arguments = <<Some(MAX_INSTANT), NULL>>
    /\ caller.status = "raised"
    /\ caller.value = NULL

(***************************************************************************)
(* C24: slice_file with N >= 1 slices on an input of L data lines          *)
(* partitions the data: the data lines of out_1 .. out_N, concatenated in  *)
(* file order, are the data lines of the input in their order, exactly N   *)
(* files are written, and each holds at most ceil(L/N) data lines.         *)
(***************************************************************************)
SliceDone == frame.function = "slice_file" /\ frame.state = "done"

InputLines == files[frame.args.file].lines

\* the line the script took as the header, if it took one
HeaderTaken == frame.args.repeat_header /\ InputLines # <<>>

\* the data lines of the input and of a slice: those after the header taken
InputData == IF HeaderTaken THEN Tail(InputLines) ELSE InputLines
SliceData(k) ==
    IF HeaderTaken THEN Tail(files[OutName(k)].lines) ELSE files[OutName(k)].lines

RECURSIVE Concatenated(_)
Concatenated(k) == IF k = 0 THEN <<>> ELSE Concatenated(k - 1) \o SliceData(k)

\* the least q with q * n >= l
CeilingOf(l, n) == CHOOSE q \in 0..l : q * n >= l /\ (q = 0 \/ (q - 1) * n < l)

C24_SlicesPartitionData ==
    (SliceDone /\ frame.args.slices >= 1) =>
        /\ DOMAIN files = {frame.args.file} \cup { OutName(k) : k \in 1..frame.args.slices }
        /\ Concatenated(frame.args.slices) = InputData
        /\ \A k \in 1..frame.args.slices :
              Len(SliceData(k)) <= CeilingOf(Len(InputData), frame.args.slices)

\* three data lines were sliced into two files, the second one shorter
C24_Witness ==
    /\ SliceDone
    /\ frame.args.slices = 2
    /\ Len(InputData) = 3
    /\ Len(SliceData(1)) = 2 /\ Len(SliceData(2)) = 1

(***************************************************************************)
(* C25: in slice_file, passing -r/--repeat_header makes the first line of  *)
(* the input the first line of every slice file and keeps it out of the    *)
(* sliced data lines; without the flag no header is repeated and the first *)
(* line is sliced as ordinary data.                                        *)
(***************************************************************************)
\* the lines of out_1 .. out_k one after the other, whole or without the
\* first line of each
RECURSIVE WholeSlices(_)
WholeSlices(k) == IF k = 0 THEN <<>> ELSE WholeSlices(k - 1) \o files[OutName(k)].lines

RECURSIVE SlicesAfterFirstLine(_)
SlicesAfterFirstLine(k) ==
    IF k = 0 THEN <<>> ELSE SlicesAfterFirstLine(k - 1) \o Tail(files[OutName(k)].lines)

C25_RepeatHeaderFlag ==
    (SliceDone /\ frame.args.slices >= 1 /\ InputLines # <<>>) =>
        IF caller.arguments.r
        THEN /\ \A k \in 1..frame.args.slices :
                   /\ files[OutName(k)].lines # <<>>
                   /\ Head(files[OutName(k)].lines) = Head(InputLines)
             /\ SlicesAfterFirstLine(frame.args.slices) = Tail(InputLines)
        ELSE WholeSlices(frame.args.slices) = InputLines

(***************************************************************************)
(* C26: for every query operation, each named placeholder of the SQL       *)
(* statement has a value in the params mapping passed with it, so the      *)
(* preparation of the statement never fails for a missing parameter and    *)
(* the operation reaches the database with its filters applied.            *)
(***************************************************************************)
QueryFunctions == Generators \cup Exports \cup {"list_tiles_wkt"}

C26_PlaceholdersBound ==
    frame.function \in QueryFunctions =>
        /\ Placeholders(frame.function) \subseteq DOMAIN Params(frame.function, frame.args)
        /\ frame.exception # "KeyError"

(***************************************************************************)
(* C27: after any sequence of Stopwatch start, stop and read calls without *)
(* reset, elapsed_time is the total clock time during which the stopwatch  *)
(* was running up to the latest stop or read: a read while running adds    *)
(* only the time since the previous start or read and leaves the stopwatch *)
(* running, so no interval is counted twice or lost, and elapsed_time      *)
(* never decreases under a non-decreasing clock.                           *)
(***************************************************************************)
\* the time run since the latest start or read, not yet in elapsed_time
Pending == IF stopwatch.running THEN clock.time - stopwatch.start_elapsed_time[1] ELSE 0

ElapsedIsTimeRun ==
    /\ stopwatch.elapsed_time = ran.observed
    /\ stopwatch.elapsed_time + Pending = ran.time
    /\ (caller.function = "Stopwatch.read" /\ caller.arguments[1].running) =>
          /\ stopwatch.running
          /\ caller.value = Some(<<stopwatch.elapsed_time, stopwatch.cpu_time>>)

ElapsedNeverDecreases ==
    caller'.function # "Stopwatch.reset" => stopwatch'.elapsed_time >= stopwatch.elapsed_time

C27_ElapsedIsTimeRun == [](ElapsedIsTimeRun) /\ [][ElapsedNeverDecreases]_vars

\* a read found the stopwatch running with time already accumulated, and
\* time has run on since
C27_Witness ==
    /\ caller.function = "Stopwatch.read"
    /\ caller.arguments[1].running
    /\ caller.arguments[1].elapsed_time > 0
    /\ stopwatch.elapsed_time > caller.arguments[1].elapsed_time
    /\ Pending > 0

(***************************************************************************)
(* C28: Stopwatch.start on a running stopwatch and Stopwatch.stop on a     *)
(* stopped stopwatch leave every field (elapsed_time, cpu_time, the start  *)
(* timestamps, running) unchanged; a second start does not restart the     *)
(* current interval.                                                       *)
(***************************************************************************)
C28_RedundantCallsChangeNothing ==
    /\ (caller.function = "Stopwatch.start" /\ caller.arguments[1].running) =>
          stopwatch = caller.arguments[1]
    /\ (caller.function = "Stopwatch.stop" /\ ~caller.arguments[1].running) =>
          stopwatch = caller.arguments[1]

\* start was called on a stopwatch that had been running for some time
C28_Witness ==
    /\ caller.function = "Stopwatch.start"
    /\ caller.arguments[1].running
    /\ Pending > 0

(***************************************************************************)
(* C29: in every state reachable by Stopwatch start, stop, read and reset  *)
(* calls, running is true iff both start_elapsed_time and start_cpu_time   *)
(* are set; reset, whether the stopwatch is running or not, restores the   *)
(* initial state (elapsed_time 0, cpu_time 0, not running).                *)
(***************************************************************************)
C29_RunningIffStarted ==
    /\ stopwatch.running <=>
          (stopwatch.start_elapsed_time # NULL /\ stopwatch.start_cpu_time # NULL)
    /\ caller.function = "Stopwatch.reset" =>
          /\ stopwatch.elapsed_time = 0 /\ stopwatch.cpu_time = 0
          /\ ~stopwatch.running
          /\ stopwatch = Stopwatch__init__

\* reset was called on a running stopwatch that had accumulated time
C29_Witness ==
    /\ caller.function = "Stopwatch.reset"
    /\ caller.arguments[1].running
    /\ caller.arguments[1].elapsed_time > 0

(***************************************************************************)
(* C30: create_directory leaves the process umask equal to its value       *)
(* before the call on every exit path: when the directory is created, when *)
(* it already exists as a directory (no error is raised), and when the     *)
(* creation fails and DatasetError is raised.                              *)
(***************************************************************************)
CreateDirectoryEnded ==
    caller.function = "create_directory" /\ caller.status \in {"returned", "raised"}

\* the umask the call was made under
UmaskBefore == caller.arguments[2]

C30_UmaskRestored ==
    /\ CreateDirectoryEnded =>
          /\ umask = UmaskBefore
          /\ caller.status = "returned" =>
                /\ IsDir(files, caller.arguments[1])
                /\ frame.exception \in {"none", "EEXIST"}
          /\ caller.status = "raised" =>
                /\ caller.raised = "DatasetError"
                /\ frame.exception # "none"
          /\ (frame.exception = "EEXIST" /\ IsDir(files, caller.arguments[1])) =>
                caller.status = "returned"
    /\ (caller.function = "create_directory" /\ caller.status = "running") => umask = 7

\* a creation that failed under a umask other than 0o007 has raised
C30_Witness ==
    /\ CreateDirectoryEnded
    /\ caller.status = "raised"
    /\ UmaskBefore # 7
    /\ umask = UmaskBefore

\* the other two exit paths: the directory was created with its parent, and
\* the directory was there already
CreatedPathTaken ==
    /\ CreateDirectoryEnded /\ caller.status = "returned"
    /\ caller.arguments[1] = "a/b" /\ frame.exception = "none"
    /\ files["a"].mode = 504 /\ files["a/b"].mode = 504
    /\ UmaskBefore = 18

ExistingPathTaken ==
    /\ CreateDirectoryEnded /\ caller.status = "returned"
    /\ frame.exception = "EEXIST"
    /\ UmaskBefore = 63

====
